---- MODULE Spec2Model ----
(***************************************************************************)
(* sunSeat: per-seat sun-exposure scoring (core/scorer.py), the route      *)
(* segmenter (core/routing.py), the weather enricher and POST /recommend   *)
(* (api/routes.py).                                                        *)
(*                                                                         *)
(* Numbers.  The program computes in floating point; the model computes    *)
(* exactly, in integers:                                                   *)
(*   - angles are whole degrees;                                           *)
(*   - uv_index is counted in thousandths (UvScale), cloud_cover_pct in    *)
(*     whole percent, so a weight  uv * (1 - cloud/100)  is the integer    *)
(*     uv * (100 - cloud)  in units of 1e-5;                               *)
(*   - cos is tabulated in thousandths (CosTable), so a seat total is an   *)
(*     integer in units of 1e-8 (ScoreScale);                              *)
(*   - round(x, 4) is Round4: it divides a total by Round4Unit and the     *)
(*     returned scores are integers in units of 1e-4;                      *)
(*   - a timestamp is a double near departure_ts, and doubles of that      *)
(*     size are evenly spaced (2^-22 s apart for Unix times from 2004 to   *)
(*     2038).  The model counts time in ticks of that spacing: a timestamp *)
(*     is a whole number of ticks, and  departure_ts + elapsed  rounds to  *)
(*     the nearest tick, a tie to the even one (RatRound).  elapsed and    *)
(*     time_per_sub are far smaller than a timestamp, their own rounding   *)
(*     is some 1e-9 of a tick, and they are exact rationals                *)
(*     <<numerator, denominator>> here.  Time 0 of the model is the start  *)
(*     of a UTC hour, origin_hour o'clock, so that the hour of day of a    *)
(*     timestamp is known while the tick counts stay small;                *)
(*   - math.sin is tabulated in millionths (SinTable), and the uv_index    *)
(*     the enricher sets is counted in thousandths like the scorer's.      *)
(* math.cos(math.radians(90)) is 6.1e-17 in the program and 0 here: the    *)
(* difference is the same for all four seats (both facings are 90 degrees  *)
(* off when one is) and vanishes in the rounded scores.                    *)
(***************************************************************************)
EXTENDS Integers, Sequences, FiniteSets, TLC

\* ------------------------------------------------------------------ bounds

\* Longest segment list score_seats is run on.
MaxSegs == 3

\* Most legs of a route, most steps of a route, most points of a polyline.
MaxLegs == 2

MaxSteps == 3

MaxPoints == 4

\* Longest encoded string _decode_polyline is run on.
MaxChars == 5

\* Longest enriched list the response heuristics are run on.
MaxEnriched == 4

\* Most requests served at the same time.
MaxRequests == 2

\* ------------------------------------------------------------- arithmetic

Abs(x) == IF x < 0 THEN -x ELSE x

Max(a, b) == IF a >= b THEN a ELSE b

Min(a, b) == IF a <= b THEN a ELSE b

\* uv_index 1.0 is UvScale.
UvScale == 10 * 10 * 10

\* cos 1.0 is CosScale.
CosScale == 10 * 10 * 10

\* A seat total of 1.0: cos * uv * (100 - cloud).
ScoreScale == CosScale * UvScale * 100

\* One unit of the fourth decimal place, in units of a seat total.
Round4Unit == ScoreScale \div 10000

\* 1000 * cos(d degrees) for d = 0..90, rounded to the nearest integer.
CosTable ==
  << 1000, 1000, 999, 999, 998, 996, 995, 993, 990, 988, 985, 982, 978,
     974, 970, 966, 961, 956, 951, 946, 940, 934, 927, 921, 914, 906,
     899, 891, 883, 875, 866, 857, 848, 839, 829, 819, 809, 799, 788,
     777, 766, 755, 743, 731, 719, 707, 695, 682, 669, 656, 643, 629,
     616, 602, 588, 574, 559, 545, 530, 515, 500, 485, 469, 454, 438,
     423, 407, 391, 375, 358, 342, 326, 309, 292, 276, 259, 242, 225,
     208, 191, 174, 156, 139, 122, 105, 87, 70, 52, 35, 17, 0 >>

\* math.cos(math.radians(d)) for d in 0..180, in thousandths.
Cos(d) == IF d <= 90 THEN CosTable[d + 1] ELSE -CosTable[(180 - d) + 1]

\* round(x, 4): to the nearest multiple of Round4Unit, a tie to the even one;
\* the result counts units of 1e-4.
Round4(x) ==
  LET q == x \div Round4Unit
      r == x % Round4Unit
  IN  IF 2 * r > Round4Unit \/ (2 * r = Round4Unit /\ q % 2 = 1)
      THEN q + 1
      ELSE q

\* round(num / den) to the nearest whole number, a tie to the even one.
RoundHalfEven(num, den) ==
  LET q == num \div den
      r == num % den
  IN  IF 2 * r > den \/ (2 * r = den /\ q % 2 = 1)
      THEN q + 1
      ELSE q

\* Elapsed times: a rational is << numerator, denominator >>, denominator > 0,
\* in lowest terms.
RECURSIVE Gcd(_, _)
Gcd(a, b) == IF b = 0 THEN a ELSE Gcd(b, a % b)

RatNorm(q) ==
  LET g == Gcd(Abs(q[1]), q[2])
  IN  << q[1] \div g, q[2] \div g >>

RatInt(k) == << k, 1 >>

RatAdd(p, q) == RatNorm(<< p[1] * q[2] + q[1] * p[2], p[2] * q[2] >>)

\* The float nearest to a non-negative exact time q, in ticks: the nearest
\* whole number, a tie to the even one.
RatRound(q) ==
  LET f == q[1] \div q[2]
      r == q[1] % q[2]
  IN  IF 2 * r > q[2] \/ (2 * r = q[2] /\ f % 2 = 1)
      THEN f + 1
      ELSE f

\* ------------------------------------------------------------ core/scorer

\* The keys of _SEAT_FACING in the order the dict enumerates them.
Seats == << "FL", "FR", "RL", "RR" >>

SeatSet == {"FL", "FR", "RL", "RR"}

\* Mutant of SEAT_FACING: the rear seats' windows face ahead.
SEAT_FACING_RearAhead == [FL |-> 270, FR |-> 90, RL |-> 0, RR |-> 0]

\* Mutant of SEAT_FACING: the rear seats' facings are exchanged.
SEAT_FACING_RearSwapped == [FL |-> 270, FR |-> 90, RL |-> 90, RR |-> 270]

\* Angle each seat's window faces, clockwise from the nose.
SEAT_FACING == [FL |-> 270, FR |-> 90, RL |-> 270, RR |-> 90]

\* Shortest arc (0..180) between two bearings.
angular_diff(a, b) == Abs(((a - b + 180) % 360) - 180)

\* Mutant of RelativeAngle: the operands of the subtraction are exchanged.
RelativeAngle_Reversed(seg, solar) == (seg.heading_degrees - solar.azimuth) % 360

\* relative_angle = (solar["azimuth"] - seg["heading_degrees"]) % 360
RelativeAngle(seg, solar) == (solar.azimuth - seg.heading_degrees) % 360

\* Mutant of Weight: the parentheses dropped, uv_index * 1.0 - cloud_cover_pct / 100.0.
Weight_NoParens(seg) == seg.uv_index * 100 - seg.cloud_cover_pct * UvScale

\* weight = seg["uv_index"] * (1.0 - seg["cloud_cover_pct"] / 100.0), in 1e-5.
Weight(seg) == seg.uv_index * (100 - seg.cloud_cover_pct)

\* Mutant of Exposure: the cosine is not clamped at 0.
Exposure_Signed(relative_angle, seat) ==
  Cos(Abs(((relative_angle - SEAT_FACING[seat] + 180) % 360) - 180))

\* exposure = max(0.0, math.cos(math.radians(diff)))
Exposure(relative_angle, seat) ==
  Max(0, Cos(angular_diff(relative_angle, SEAT_FACING[seat])))

\* scores = {seat: 0.0 for seat in _SEAT_FACING}
ZeroScores == [seat \in SeatSet |-> 0]

\* Mutant of Accumulate: the horizon test is missing.
Accumulate_NoHorizon(sc, seg, solar) ==
  IF Weight(seg) <= 0
  THEN sc
  ELSE [seat \in SeatSet |->
          sc[seat] + Exposure(RelativeAngle(seg, solar), seat) * Weight(seg)]

\* Mutant of Accumulate: the seat's total is assigned, not added to.
Accumulate_Overwrite(sc, seg, solar) ==
  IF solar.elevation <= 0
  THEN sc
  ELSE IF Weight(seg) <= 0
       THEN sc
       ELSE [seat \in SeatSet |->
               Exposure(RelativeAngle(seg, solar), seat) * Weight(seg)]

\* One iteration of the loop over the segments, after the provider answered:
\* the two skips and the accumulation over the four seats.
Accumulate(sc, seg, solar) ==
  IF solar.elevation <= 0
  THEN sc
  ELSE IF Weight(seg) <= 0
       THEN sc
       ELSE [seat \in SeatSet |->
               sc[seat] + Exposure(RelativeAngle(seg, solar), seat) * Weight(seg)]

\* Mutant of MinSeat: a tie goes to the last seat of the enumeration.
MinSeat_Last(sc) ==
  LET i == CHOOSE k \in 1..4 :
             /\ \A j \in 1..4 : sc[Seats[k]] <= sc[Seats[j]]
             /\ \A j \in (k + 1)..4 : sc[Seats[j]] > sc[Seats[k]]
  IN  Seats[i]

\* min(scores, key=scores.get): the first seat, in enumeration order, whose
\* total is the least.
MinSeat(sc) ==
  LET i == CHOOSE k \in 1..4 :
             /\ \A j \in 1..4 : sc[Seats[k]] <= sc[Seats[j]]
             /\ \A j \in 1..(k - 1) : sc[Seats[j]] > sc[Seats[k]]
  IN  Seats[i]

\* Mutant of MaxSeat: a tie goes to the last seat of the enumeration.
MaxSeat_Last(sc) ==
  LET i == CHOOSE k \in 1..4 :
             /\ \A j \in 1..4 : sc[Seats[k]] >= sc[Seats[j]]
             /\ \A j \in (k + 1)..4 : sc[Seats[j]] < sc[Seats[k]]
  IN  Seats[i]

\* max(scores, key=scores.get): the first seat whose total is the greatest.
MaxSeat(sc) ==
  LET i == CHOOSE k \in 1..4 :
             /\ \A j \in 1..4 : sc[Seats[k]] >= sc[Seats[j]]
             /\ \A j \in 1..(k - 1) : sc[Seats[j]] < sc[Seats[k]]
  IN  Seats[i]

\* driver_seat = "FL" if drive_side == "LHD" else "FR"
DriverSeat(side) == IF side = "LHD" THEN "FL" ELSE "FR"

\* Mutant of ScoreResult: best_seat is chosen among the passengers' seats.
ScoreResult_PassengerBest(sc, side) ==
  LET passengers == {seat \in SeatSet : seat # (IF side = "LHD" THEN "FL" ELSE "FR")}
      i == CHOOSE k \in 1..4 :
             /\ Seats[k] \in passengers
             /\ \A seat \in passengers : sc[Seats[k]] <= sc[seat]
             /\ \A j \in 1..(k - 1) :
                  Seats[j] \in passengers => sc[Seats[j]] > sc[Seats[k]]
  IN  [FL          |-> Round4(sc["FL"]),
       FR          |-> Round4(sc["FR"]),
       RL          |-> Round4(sc["RL"]),
       RR          |-> Round4(sc["RR"]),
       best_seat   |-> Seats[i],
       worst_seat  |-> MaxSeat(sc),
       driver_seat |-> IF side = "LHD" THEN "FL" ELSE "FR"]

\* The dict score_seats returns.
ScoreResult(sc, side) ==
  [FL          |-> Round4(sc["FL"]),
   FR          |-> Round4(sc["FR"]),
   RL          |-> Round4(sc["RL"]),
   RR          |-> Round4(sc["RR"]),
   best_seat   |-> MinSeat(sc),
   worst_seat  |-> MaxSeat(sc),
   driver_seat |-> DriverSeat(side)]

\* ------------------------------------------------------ inputs of the scorer

DriveSides == {"LHD", "RHD"}

Headings == {0, 90}

\* uv_index values, in thousandths: negative, none, 0.001 and 2.0.
UvValues == {-1000, 0, 1, 2000}

\* cloud_cover_pct values, among them one above 100.
CloudValues == {0, 99, 150}

\* The fields of a segment score_seats computes with.  lat, lng and
\* timestamp_utc are only handed to the solar provider, whose answer is drawn
\* from SolarAnswers whatever they are.
Segments ==
  [heading_degrees : Headings, uv_index : UvValues, cloud_cover_pct : CloudValues]

Azimuths == {1, 90, 270}

Elevations == {-5, 0, 30}

\* What get_sun_position can answer.
SolarAnswers == [azimuth : Azimuths, elevation : Elevations]

None == [none |-> TRUE]

Mixed == [mixed |-> TRUE]

Failed == [failed |-> TRUE]

\* An environment variable that is not set (os.getenv returns None).
Unset == "unset"

\* No response of the route provider has been read.
NoStatus == "-"

VARIABLES
  pc,          \* where score_seats is: "loop", "score", "done", "raised"
  drive_side,  \* the drive_side argument
  n,           \* segments taken from the list so far
  seg,         \* the loop variable seg (None outside an iteration)
  solar,       \* the provider's answer for seg (None outside an iteration)
  scores,      \* the running totals
  result,      \* the returned dict (None until the return)
  calls,       \* calls of get_sun_position so far
  hist,        \* history: what held of every segment scored so far
  first,       \* history: the first segment and its answer; "mixed" once differed
  scores_uv2,  \* the totals of the run on the same list with every uv_index doubled
  scores_c50,  \* the totals of the run with cloud_cover_pct 50 (while all were 0)
  rpc,          \* where get_route_segments is: "idle", "steps", "sub", "returned"
  departure_ts, \* departure_ts, in ticks
  legs,         \* legs of the route entered so far
  route,        \* the steps taken from the route so far, in order
  points,       \* len(points) of the step in hand (0 outside a step)
  time_per_sub, \* time_per_sub
  sub_i,        \* the inner loop's i
  elapsed,      \* elapsed, ticks since departure (a rational)
  segments,     \* the list segments
  qpc,          \* where POST /recommend is: "idle", "called", "fetch", "raised",
                \* "segmenting", "enrich", "enriched", "scoring", "responded"
  reqs,         \* concurrent requests: the frame of each one's recommend call
  origin_hour,  \* the UTC hour of day in which the model's time 0 lies
  encoded,      \* the argument of _decode_polyline: a character c is ord(c) - 63
  decoded,      \* what _decode_polyline did with it (None before the call)
  env_key,      \* os.getenv("GOOGLE_MAPS_API_KEY")
  fetches,      \* requests sent to the route provider so far
  status,       \* data.get("status") of the provider's response (NoStatus before)
  raised,       \* the exception get_route_segments raised (None if none)
  enriched,     \* the list enriched of _enrich_weather
  looked,       \* history: the outcomes of _enrich_weather's calls of
                \* get_sun_position so far, an answer or Failed
  response      \* the HTTP response of the request (None until answered)

svars ==
  << pc, drive_side, n, seg, solar, scores, result, calls, hist, first,
     scores_uv2, scores_c50 >>

rvars ==
  << rpc, departure_ts, legs, route, points, time_per_sub, sub_i, elapsed,
     segments >>

qvars ==
  << qpc, reqs, origin_hour, encoded, decoded, env_key, fetches, status, raised, enriched, looked,
     response >>

vars == << svars, rvars, qvars >>

\* History, stated on the inputs alone.  The sun's bearing off the nose for
\* a segment and its provider answer: (azimuth - heading) mod 360.
SunOffNose(s, a) == (a.azimuth - s.heading_degrees) % 360

\* The sun is up and uv_index * (1 - cloud_cover_pct / 100) is positive.
SunUpAndWeighted(s, a) ==
  a.elevation > 0 /\ s.uv_index * (100 - s.cloud_cover_pct) > 0

HistInit ==
  [dark |-> TRUE, abeamR |-> TRUE, abeamL |-> TRUE, right |-> TRUE,
   left |-> TRUE, clear |-> TRUE]

HistNext(h, s, a) ==
  LET rel == SunOffNose(s, a)
  IN  [dark   |-> h.dark /\ a.elevation <= 0,
       abeamR |-> h.abeamR /\ SunUpAndWeighted(s, a) /\ rel = 90,
       abeamL |-> h.abeamL /\ SunUpAndWeighted(s, a) /\ rel = 270,
       right  |-> h.right /\ SunUpAndWeighted(s, a) /\ rel > 0 /\ rel < 180,
       left   |-> h.left /\ SunUpAndWeighted(s, a) /\ rel > 180 /\ rel < 360,
       clear  |-> h.clear /\ s.cloud_cover_pct = 0]

\* get_route_segments not called.
RouteIdle ==
  /\ rpc = "idle"
  /\ departure_ts = 0
  /\ legs = 0
  /\ route = << >>
  /\ points = 0
  /\ time_per_sub = RatInt(0)
  /\ sub_i = 0
  /\ elapsed = RatInt(0)
  /\ segments = << >>

\* No request is being served.
RequestIdle ==
  /\ qpc = "idle"
  /\ origin_hour = 0
  /\ reqs = << >>
  /\ encoded = << >>
  /\ decoded = None
  /\ env_key = Unset
  /\ fetches = 0
  /\ status = NoStatus
  /\ raised = None
  /\ enriched = << >>
  /\ looked = << >>
  /\ response = None

Init ==
  /\ RouteIdle
  /\ RequestIdle
  /\ pc = "loop"
  /\ drive_side \in DriveSides
  /\ n = 0
  /\ seg = None
  /\ solar = None
  /\ scores = ZeroScores
  /\ result = None
  /\ calls = 0
  /\ hist = HistInit
  /\ first = None
  /\ scores_uv2 = ZeroScores
  /\ scores_c50 = ZeroScores

\* for seg in segments: solar = get_sun_position(...), the provider answering.
QuerySun(s, a) ==
  /\ pc = "loop"
  /\ n < MaxSegs
  /\ seg' = s
  /\ solar' = a
  /\ n' = n + 1
  /\ calls' = calls + 1
  /\ pc' = "score"
  /\ UNCHANGED << drive_side, scores, result, hist, first, scores_uv2, scores_c50 >>
  /\ UNCHANGED rvars
  /\ UNCHANGED qvars

\* get_sun_position raises: score_seats does not catch it.
QuerySunFails(s) ==
  /\ pc = "loop"
  /\ n < MaxSegs
  /\ seg' = s
  /\ n' = n + 1
  /\ calls' = calls + 1
  /\ pc' = "raised"
  /\ UNCHANGED << drive_side, solar, scores, result, hist, first, scores_uv2,
                  scores_c50 >>
  /\ UNCHANGED rvars
  /\ UNCHANGED qvars

\* The rest of the iteration: the horizon skip, the weight skip, the four seats.
ScoreSegment ==
  /\ pc = "score"
  /\ scores' = Accumulate(scores, seg, solar)
  /\ hist' = HistNext(hist, seg, solar)
  /\ first' = IF n = 1 THEN [seg |-> seg, solar |-> solar]
              ELSE IF first = [seg |-> seg, solar |-> solar] THEN first
              ELSE Mixed
  /\ scores_uv2' =
       Accumulate(scores_uv2, [seg EXCEPT !.uv_index = 2 * @], solar)
  /\ scores_c50' =
       IF hist'.clear
       THEN Accumulate(scores_c50, [seg EXCEPT !.cloud_cover_pct = 50], solar)
       ELSE ZeroScores
  /\ seg' = None
  /\ solar' = None
  /\ pc' = "loop"
  /\ UNCHANGED << drive_side, n, result, calls >>
  /\ UNCHANGED rvars
  /\ UNCHANGED qvars

\* The list is exhausted: driver_seat, best_seat, worst_seat, the rounded scores.
ReturnResult ==
  /\ pc = "loop"
  /\ result' = ScoreResult(scores, drive_side)
  /\ pc' = "done"
  /\ UNCHANGED << drive_side, n, seg, solar, scores, calls, hist, first,
                  scores_uv2, scores_c50 >>
  /\ UNCHANGED rvars
  /\ UNCHANGED qvars

Next ==
  \/ \E s \in Segments, a \in SolarAnswers : QuerySun(s, a)
  \/ \E s \in Segments : QuerySunFails(s)
  \/ ScoreSegment
  \/ ReturnResult

Spec == Init /\ [][Next]_vars

\* ------------------------------------------------- core/scoring: score_seat

\* "left" if sunny_side == "right" else "right"
OtherSide(side) == IF side = "right" THEN "left" ELSE "right"

\* Mutant of score_seat: the sun is reported on the other side.
score_seat_Mirrored(solar_azimuth, vehicle_heading) ==
  LET relative_angle == (solar_azimuth - vehicle_heading) % 360
      sunny_side == IF relative_angle >= 180 THEN "right" ELSE "left"
      ninetieths == IF relative_angle >= 180
                    THEN 90 - Abs(relative_angle - 90)
                    ELSE Max(0, Min(90 - Abs(relative_angle - 270), 90))
  IN  [sunny_side  |-> sunny_side,
       shaded_side |-> OtherSide(sunny_side),
       intensity   |-> RoundHalfEven(1000 * ninetieths, 90)]

\* score_seat(solar_azimuth, vehicle_heading): the side, and the intensity
\* 1.0 - abs(relative_angle - 90) / 90 (on the left 270 for 90, clamped to
\* 0..1), counted in ninetieths and returned in thousandths, round(., 3).
score_seat(solar_azimuth, vehicle_heading) ==
  LET relative_angle == (solar_azimuth - vehicle_heading) % 360
      sunny_side == IF relative_angle < 180 THEN "right" ELSE "left"
      ninetieths == IF relative_angle < 180
                    THEN 90 - Abs(relative_angle - 90)
                    ELSE Max(0, Min(90 - Abs(relative_angle - 270), 90))
  IN  [sunny_side  |-> sunny_side,
       shaded_side |-> OtherSide(sunny_side),
       intensity   |-> RoundHalfEven(1000 * ninetieths, 90)]

\* score_seats run on one segment, for every whole azimuth and three
\* headings, with the sun up or down and uv_index 2.0 or 0 under a clear sky.
SideSegments ==
  [heading_degrees : {0, 90, 200}, uv_index : {0, 2000}, cloud_cover_pct : {0}]

SideAnswers == [azimuth : 0..359, elevation : {-5, 30}]

\* The one segment of the list is taken.
SideQuerySun(s, a) == n = 0 /\ QuerySun(s, a)

SideNext ==
  \/ \E s \in SideSegments, a \in SideAnswers : SideQuerySun(s, a)
  \/ ScoreSegment
  \/ ReturnResult

SideSpec == Init /\ [][SideNext]_vars

\* ----------------------------------------------------------- core/routing

\* One second, in ticks.
TicksPerSecond == 2 ^ 22

\* departure_ts values, in ticks (a float is a whole number of them); small,
\* to keep the products of the rational arithmetic within TLC's integers.
Departures == {0, 86401}

\* step["duration"]["value"], in ticks: none, one tick (0.24 microseconds),
\* one second.
Durations == {0, 1, TicksPerSecond}

\* A step of the route: its duration and the number of points its polyline
\* decodes to; the step's own start_location and end_location are named by
\* its position in the route.
Steps == [duration : Durations, npoints : 0..MaxPoints]

\* Places: the k-th decoded point of the step numbered s, and that step's
\* explicit start_location and end_location.
PointAt(s, k) == << "point", s, k >>

StartOf(s) == << "start_location", s >>

EndOf(s) == << "end_location", s >>

\* _bearing(from, to), uninterpreted.
Bearing(from, to) == << "bearing", from, to >>

\* _make_segment(lat, lng, timestamp_utc, heading_degrees)
make_segment(at, timestamp_utc, heading_degrees) ==
  [at              |-> at,
   timestamp_utc   |-> timestamp_utc,
   heading_degrees |-> heading_degrees,
   uv_index        |-> 0,
   cloud_cover_pct |-> 0]

\* Mutant of TimePerSub: the duration is divided by the number of points.
TimePerSub_PerPoint(step_duration, npoints) == RatNorm(<< step_duration, npoints >>)

\* time_per_sub = step_duration / (len(points) - 1)
TimePerSub(step_duration, npoints) == RatNorm(<< step_duration, npoints - 1 >>)

\* Mutant of Timestamp: the departure time is left out.
Timestamp_NoDeparture == RatRound(elapsed)

\* departure_ts + elapsed, a float addition: the sum is rounded to a tick.
Timestamp == RatRound(RatAdd(RatInt(departure_ts), elapsed))

\* The call, with the provider's response in hand and its status OK:
\* segments = [], elapsed = 0.0.
RouteInit ==
  /\ rpc = "steps"
  /\ departure_ts \in Departures
  /\ legs = 0
  /\ route = << >>
  /\ points = 0
  /\ time_per_sub = RatInt(0)
  /\ sub_i = 0
  /\ elapsed = RatInt(0)
  /\ segments = << >>

\* The scorer is not running.
ScorerIdle ==
  /\ pc = "idle"
  /\ drive_side = "LHD"
  /\ n = 0
  /\ seg = None
  /\ solar = None
  /\ scores = ZeroScores
  /\ result = None
  /\ calls = 0
  /\ hist = HistInit
  /\ first = None
  /\ scores_uv2 = ZeroScores
  /\ scores_c50 = ZeroScores

\* for leg in data["routes"][0]["legs"]: the next leg is entered.
NextLeg ==
  /\ rpc = "steps"
  /\ legs < MaxLegs
  /\ legs' = legs + 1
  /\ UNCHANGED << rpc, departure_ts, route, points, time_per_sub, sub_i,
                  elapsed, segments >>
  /\ UNCHANGED svars
  /\ UNCHANGED qvars

\* Mutant of DegenerateStep: the heading is taken from the segment's own
\* position, and elapsed is left as it was.
DegenerateStep_FromPosition(st) ==
  /\ rpc = "steps"
  /\ legs >= 1
  /\ Len(route) < MaxSteps
  /\ st.npoints < 2
  /\ LET s == Len(route) + 1
         at == IF st.npoints = 1 THEN PointAt(s, 0) ELSE StartOf(s)
     IN  segments' =
           Append(segments,
                  make_segment(at, Timestamp, Bearing(at, EndOf(s))))
  /\ route' = Append(route, st)
  /\ UNCHANGED << rpc, departure_ts, legs, points, time_per_sub, sub_i, elapsed >>
  /\ UNCHANGED svars
  /\ UNCHANGED qvars

\* A step whose polyline decodes to fewer than 2 points: one segment, at the
\* decoded point if there is one and at start_location otherwise, headed from
\* start_location to end_location; elapsed advances by the whole duration.
DegenerateStep(st) ==
  /\ rpc = "steps"
  /\ legs >= 1
  /\ Len(route) < MaxSteps
  /\ st.npoints < 2
  /\ LET s == Len(route) + 1
         at == IF st.npoints = 1 THEN PointAt(s, 0) ELSE StartOf(s)
     IN  segments' =
           Append(segments,
                  make_segment(at, Timestamp, Bearing(StartOf(s), EndOf(s))))
  /\ elapsed' = RatAdd(elapsed, RatInt(st.duration))
  /\ route' = Append(route, st)
  /\ UNCHANGED << rpc, departure_ts, legs, points, time_per_sub, sub_i >>
  /\ UNCHANGED svars
  /\ UNCHANGED qvars

\* A step with 2 or more points: time_per_sub is set and the inner loop starts.
BeginStep(st) ==
  /\ rpc = "steps"
  /\ legs >= 1
  /\ Len(route) < MaxSteps
  /\ st.npoints >= 2
  /\ route' = Append(route, st)
  /\ points' = st.npoints
  /\ time_per_sub' = TimePerSub(st.duration, st.npoints)
  /\ sub_i' = 0
  /\ rpc' = "sub"
  /\ UNCHANGED << departure_ts, legs, elapsed, segments >>
  /\ UNCHANGED svars
  /\ UNCHANGED qvars

\* Mutant of EmitSub: the segment is placed at points[i + 1].
EmitSub_NextPoint ==
  /\ rpc = "sub"
  /\ sub_i < points - 1
  /\ LET s == Len(route)
     IN  segments' =
           Append(segments,
                  make_segment(PointAt(s, sub_i + 1), Timestamp,
                               Bearing(PointAt(s, sub_i), PointAt(s, sub_i + 1))))
  /\ elapsed' = RatAdd(elapsed, time_per_sub)
  /\ sub_i' = sub_i + 1
  /\ rpc' = IF sub_i + 1 < points - 1 THEN "sub" ELSE "steps"
  /\ UNCHANGED << departure_ts, legs, route, points, time_per_sub >>
  /\ UNCHANGED svars
  /\ UNCHANGED qvars

\* for i in range(len(points) - 1): one segment at points[i], headed to
\* points[i + 1]; elapsed advances by time_per_sub.
EmitSub ==
  /\ rpc = "sub"
  /\ sub_i < points - 1
  /\ LET s == Len(route)
     IN  segments' =
           Append(segments,
                  make_segment(PointAt(s, sub_i), Timestamp,
                               Bearing(PointAt(s, sub_i), PointAt(s, sub_i + 1))))
  /\ elapsed' = RatAdd(elapsed, time_per_sub)
  /\ sub_i' = sub_i + 1
  /\ rpc' = IF sub_i + 1 < points - 1 THEN "sub" ELSE "steps"
  /\ UNCHANGED << departure_ts, legs, route, points, time_per_sub >>
  /\ UNCHANGED svars
  /\ UNCHANGED qvars

\* return segments
ReturnSegments ==
  /\ rpc = "steps"
  /\ rpc' = "returned"
  /\ UNCHANGED << departure_ts, legs, route, points, time_per_sub, sub_i,
                  elapsed, segments >>
  /\ UNCHANGED svars
  /\ UNCHANGED qvars

RouteNext ==
  \/ NextLeg
  \/ \E st \in Steps : DegenerateStep(st)
  \/ \E st \in Steps : BeginStep(st)
  \/ EmitSub
  \/ ReturnSegments

RouteSpecInit == ScorerIdle /\ RequestIdle /\ RouteInit

RouteSpec == RouteSpecInit /\ [][RouteNext]_vars

\* ------------------------------------------- core/routing: _decode_polyline

\* encoded[index] past the end of the string.
IndexError == [raised |-> "IndexError"]

\* The inner while loop from position index on, with shift and result as
\* they stand (res is result): result |= (b & 0x1F) << shift until a
\* b < 0x20 ends it.  The answer is the value and the next index, or
\* IndexError.
RECURSIVE ReadChunks(_, _, _, _)
ReadChunks(enc, index, shift, res) ==
  IF index > Len(enc)
  THEN IndexError
  ELSE LET b == enc[index]
           r == res + (b % 32) * 2 ^ shift
       IN  IF b < 32
           THEN [value |-> r, index |-> index + 1]
           ELSE ReadChunks(enc, index + 1, shift + 5, r)

\* Mutant of Delta: the sign bit is not looked at.
Delta_Unsigned(res) == res \div 2

\* delta = ~(result >> 1) if (result & 1) else (result >> 1)
Delta(res) ==
  IF res % 2 = 1 THEN -(res \div 2) - 1 ELSE res \div 2

\* Mutant of DecodeFrom: a string that ends where a coordinate should start
\* ends the decoding with the points made so far.
RECURSIVE DecodeFrom_Lenient(_, _, _, _, _)
DecodeFrom_Lenient(enc, index, lat, lng, pts) ==
  IF index > Len(enc)
  THEN [points |-> pts]
  ELSE LET a == ReadChunks(enc, index, 0, 0)
       IN  IF a = IndexError
           THEN [points |-> pts]
           ELSE LET o == ReadChunks(enc, a.index, 0, 0)
                IN  IF o = IndexError
                    THEN [points |-> pts]
                    ELSE DecodeFrom_Lenient(
                           enc, o.index, lat + Delta(a.value),
                           lng + Delta(o.value),
                           Append(pts, << lat + Delta(a.value),
                                          lng + Delta(o.value) >>))

\* while index < n: one latitude and one longitude are read, added to lat
\* and lng, and (lat / 1e5, lng / 1e5) is appended; a point is kept here as
\* the pair << lat, lng >> of whole hundred-thousandths of a degree.
RECURSIVE DecodeFrom(_, _, _, _, _)
DecodeFrom(enc, index, lat, lng, pts) ==
  IF index > Len(enc)
  THEN [points |-> pts]
  ELSE LET a == ReadChunks(enc, index, 0, 0)
       IN  IF a = IndexError
           THEN IndexError
           ELSE LET o == ReadChunks(enc, a.index, 0, 0)
                IN  IF o = IndexError
                    THEN IndexError
                    ELSE DecodeFrom(
                           enc, o.index, lat + Delta(a.value),
                           lng + Delta(o.value),
                           Append(pts, << lat + Delta(a.value),
                                          lng + Delta(o.value) >>))

\* _decode_polyline(encoded)
decode_polyline(enc) == DecodeFrom(enc, 1, 0, 0, << >>)

\* Characters of the encoded strings, as ord(c) - 63: "?", "@", "A" end a
\* coordinate (values 0, 1, 2), "`" and "~" continue one (low bits 1, 31).
Chars == {0, 1, 2, 33, 63}

\* ------------------------------------------------------------- api/routes

\* math.sin(math.pi * k / 12) for k in 0..12, in millionths (position k + 1).
SinTable ==
  << 0, 258819, 500000, 707107, 866025, 965926, 1000000,
     965926, 866025, 707107, 500000, 258819, 0 >>

\* datetime.fromtimestamp(timestamp_utc, tz=timezone.utc).hour
UtcHour(timestamp_utc) ==
  (origin_hour + (timestamp_utc \div TicksPerSecond) \div 3600) % 24

\* Mutant of UvAtHour: the window and the curve lie an hour late.
UvAtHour_HourLate(hour) ==
  IF 7 <= hour /\ hour <= 19
  THEN RoundHalfEven(Max(0, 6 * SinTable[(hour - 7) + 1]), 10000) * (UvScale \div 100)
  ELSE 0

\* _estimate_uv_from_time after the hour is taken:
\* round(max(0.0, 6.0 * sin(pi * (hour - 6) / 12)), 2) for 6 <= hour <= 18 and
\* 0.0 otherwise, as a uv_index in thousandths.
UvAtHour(hour) ==
  IF 6 <= hour /\ hour <= 18
  THEN RoundHalfEven(Max(0, 6 * SinTable[(hour - 6) + 1]), 10000) * (UvScale \div 100)
  ELSE 0

\* _estimate_uv_from_time(timestamp_utc)
estimate_uv_from_time(timestamp_utc) == UvAtHour(UtcHour(timestamp_utc))

\* Mutant of UvFromElevation: the floor at 0 is left out.
UvFromElevation_NoFloor(elevation) ==
  RoundHalfEven(elevation * 100, 9) * (UvScale \div 100)

\* uv = max(0.0, round(solar["elevation"] / 9.0, 2)), in thousandths.
UvFromElevation(elevation) ==
  Max(0, RoundHalfEven(elevation * 100, 9)) * (UvScale \div 100)

\* {**seg, "uv_index": uv, "cloud_cover_pct": 0.0}
WithWeather(sg, uv) == [sg EXCEPT !.uv_index = uv, !.cloud_cover_pct = 0]

\* What get_sun_position answers to _enrich_weather in the model.
EnrichAnswers == [azimuth : {90}, elevation : {-5, 30, 90}]

\* for seg in segments: the lookup succeeds and uv comes from the elevation.
EnrichSegment(a) ==
  /\ qpc = "enrich"
  /\ Len(enriched) < Len(segments)
  /\ looked' = Append(looked, a)
  /\ enriched' =
       Append(enriched,
              WithWeather(segments[Len(enriched) + 1], UvFromElevation(a.elevation)))
  /\ UNCHANGED << qpc, reqs, origin_hour, encoded, decoded, env_key, fetches, status, raised, response >>
  /\ UNCHANGED svars
  /\ UNCHANGED rvars

\* for seg in segments: the lookup raises and uv comes from the time of day.
EnrichSegmentFallback ==
  /\ qpc = "enrich"
  /\ Len(enriched) < Len(segments)
  /\ looked' = Append(looked, Failed)
  /\ enriched' =
       Append(enriched,
              WithWeather(segments[Len(enriched) + 1],
                          estimate_uv_from_time(
                            segments[Len(enriched) + 1].timestamp_utc)))
  /\ UNCHANGED << qpc, reqs, origin_hour, encoded, decoded, env_key, fetches, status, raised, response >>
  /\ UNCHANGED svars
  /\ UNCHANGED rvars

\* return enriched
EnrichReturn ==
  /\ qpc = "enrich"
  /\ Len(enriched) = Len(segments)
  /\ qpc' = "enriched"
  /\ UNCHANGED << reqs, origin_hour, encoded, decoded, env_key, fetches, status, raised, enriched,
                  looked, response >>
  /\ UNCHANGED svars
  /\ UNCHANGED rvars

\* Segments _enrich_weather is given when called on its own: one as the
\* segmenter makes them, one that already carries weather, a second later.
GivenSegments ==
  { make_segment(PointAt(1, 0), 0, Bearing(PointAt(1, 0), PointAt(1, 1))),
    [make_segment(PointAt(1, 1), TicksPerSecond,
                  Bearing(PointAt(1, 1), PointAt(1, 2)))
       EXCEPT !.uv_index = 5 * UvScale, !.cloud_cover_pct = 50] }

\* _enrich_weather called on its own with a list of up to MaxSegs segments,
\* in any hour of the day.
EnrichSpecInit ==
  /\ ScorerIdle
  /\ rpc = "idle"
  /\ departure_ts = 0
  /\ legs = 0
  /\ route = << >>
  /\ points = 0
  /\ time_per_sub = RatInt(0)
  /\ sub_i = 0
  /\ elapsed = RatInt(0)
  /\ segments \in UNION { [1..k -> GivenSegments] : k \in 0..MaxSegs }
  /\ qpc = "enrich"
  /\ origin_hour \in 0..23
  /\ reqs = << >>
  /\ encoded = << >>
  /\ decoded = None
  /\ env_key = Unset
  /\ fetches = 0
  /\ status = NoStatus
  /\ raised = None
  /\ enriched = << >>
  /\ looked = << >>
  /\ response = None

EnrichNext ==
  \/ \E a \in EnrichAnswers : EnrichSegment(a)
  \/ EnrichSegmentFallback
  \/ EnrichReturn

EnrichSpec == EnrichSpecInit /\ [][EnrichNext]_vars

\* ------------------------------------------------- api/routes: recommend

\* Values of GOOGLE_MAPS_API_KEY in the environment.
EnvKeys == {Unset, "", "key"}

\* maps_api_key or os.getenv("GOOGLE_MAPS_API_KEY")
ApiKey(maps_api_key, env) ==
  IF maps_api_key \notin {Unset, ""} THEN maps_api_key ELSE env

\* Mutant of MissingKey: only a key that is None counts as missing.
MissingKey_NoneOnly(api_key) == api_key = Unset

\* not api_key
MissingKey(api_key) == api_key \in {Unset, ""}

\* Statuses of the route provider other than OK.
ErrorStatuses == {"ZERO_RESULTS", "NOT_FOUND", "REQUEST_DENIED"}

\* HTTP error statuses response.raise_for_status() raises on.
HttpErrorCodes == {403, 500}

\* ValueError("No Maps API key provided. ...")
KeyError == [class |-> "ValueError", message |-> << "No Maps API key provided" >>]

\* Mutant of StatusError: the message does not carry the status.
StatusError_Anonymous(st) ==
  [class |-> "ValueError", message |-> << "Directions API error" >>]

\* ValueError(f"Directions API error: {status} ...")
StatusError(st) ==
  [class |-> "ValueError", message |-> << "Directions API error", st >>]

\* httpx.HTTPStatusError, raised by response.raise_for_status()
HttpError(code) ==
  [class |-> "HTTPStatusError", message |-> << "HTTP error", code >>]

\* An exception of client.get itself: a timeout, a refused connection.
TransportError == [class |-> "TransportError", message |-> << "transport" >>]

\* recommend's except clauses around get_route_segments: ValueError is
\* answered 400 with detail str(exc), httpx.HTTPStatusError 502; any other
\* exception leaves recommend and the framework answers 500.
ErrorResponse(exc) ==
  IF exc.class = "ValueError"
  THEN [status_code |-> 400, detail |-> exc.message, body |-> None]
  ELSE IF exc.class = "HTTPStatusError"
       THEN [status_code |-> 502,
             detail |-> << "Maps API returned an unexpected HTTP error",
                           exc.message[2] >>,
             body |-> None]
       ELSE [status_code |-> 500, detail |-> << "Internal Server Error" >>,
             body |-> None]

\* HTTPException(status_code=422, ...) for an empty segment list.
EmptyRouteResponse ==
  [status_code |-> 422,
   detail |-> << "The route produced no drivable segments" >>,
   body |-> None]

\* sunny = [s for s in enriched if s["uv_index"] > 0]
Sunny(enr) == SelectSeq(enr, LAMBDA s : s.uv_index > 0)

\* sum(s["uv_index"] for s in sunny)
RECURSIVE SumUv(_)
SumUv(list) ==
  IF list = << >> THEN 0 ELSE Head(list).uv_index + SumUv(Tail(list))

\* max(scores.values()), min(scores.values()), sum(scores.values())
WorstScore(sc) ==
  CHOOSE x \in {sc[seat] : seat \in SeatSet} : \A seat \in SeatSet : sc[seat] <= x

BestScore(sc) ==
  CHOOSE x \in {sc[seat] : seat \in SeatSet} : \A seat \in SeatSet : sc[seat] >= x

TotalScore(sc) == sc["FL"] + sc["FR"] + sc["RL"] + sc["RR"]

\* relative_spread = (worst - best) / worst if worst > 0 else 0.0, as the
\* fraction << numerator, denominator >>.
RelativeSpread(sc) ==
  IF WorstScore(sc) > 0
  THEN << WorstScore(sc) - BestScore(sc), WorstScore(sc) >>
  ELSE << 0, 1 >>

\* q >= num / den for a fraction q with a positive denominator.
AtLeast(q, num, den) == q[1] * den >= num * q[2]

\* The program compares the float quotient (worst - best) / worst with the
\* float threshold; that differs from the exact comparison only where the
\* exact quotient equals the threshold.  << worst, best, num, den >>, scores
\* in units of 1e-4, are the ties of the model's runs that the floats decide
\* the other way: (1.0 - 0.9) / 1.0 is 0.09999999999999998, below 0.1.
FloatShortfalls == { << 10000, 9000, 1, 10 >> }

\* relative_spread >= num / den
SpreadReaches(sc, num, den) ==
  /\ AtLeast(RelativeSpread(sc), num, den)
  /\ << WorstScore(sc), BestScore(sc), num, den >> \notin FloatShortfalls

\* Mutant of compute_confidence: the moderate tier does not look at the
\* relative spread.
compute_confidence_NoSpread(enr, sc) ==
  IF enr = << >>
  THEN "low"
  ELSE LET sunny == Sunny(enr)
           sun_fraction == << Len(sunny), Len(enr) >>
           avg_uv == << SumUv(sunny), Len(sunny) * UvScale >>
       IN  IF sunny = << >>
           THEN "low"
           ELSE IF /\ AtLeast(sun_fraction, 7, 10)
                   /\ AtLeast(avg_uv, 4, 1)
                   /\ SpreadReaches(sc, 3, 10)
                THEN "high"
                ELSE IF /\ AtLeast(sun_fraction, 3, 10)
                        /\ AtLeast(avg_uv, 3, 2)
                     THEN "moderate"
                     ELSE "low"

\* Mutant of compute_confidence: the moderate tier is tried first.
compute_confidence_ModerateFirst(enr, sc) ==
  IF enr = << >>
  THEN "low"
  ELSE LET sunny == Sunny(enr)
           sun_fraction == << Len(sunny), Len(enr) >>
           avg_uv == << SumUv(sunny), Len(sunny) * UvScale >>
       IN  IF sunny = << >>
           THEN "low"
           ELSE IF /\ AtLeast(sun_fraction, 3, 10)
                   /\ AtLeast(avg_uv, 3, 2)
                   /\ SpreadReaches(sc, 1, 10)
                THEN "moderate"
                ELSE IF /\ AtLeast(sun_fraction, 7, 10)
                        /\ AtLeast(avg_uv, 4, 1)
                        /\ SpreadReaches(sc, 3, 10)
                     THEN "high"
                     ELSE "low"

\* _compute_confidence(enriched, scores)
compute_confidence(enr, sc) ==
  IF enr = << >>
  THEN "low"
  ELSE LET sunny == Sunny(enr)
           sun_fraction == << Len(sunny), Len(enr) >>
           avg_uv == << SumUv(sunny), Len(sunny) * UvScale >>
       IN  IF sunny = << >>
           THEN "low"
           ELSE IF /\ AtLeast(sun_fraction, 7, 10)
                   /\ AtLeast(avg_uv, 4, 1)
                   /\ SpreadReaches(sc, 3, 10)
                THEN "high"
                ELSE IF /\ AtLeast(sun_fraction, 3, 10)
                        /\ AtLeast(avg_uv, 3, 2)
                        /\ SpreadReaches(sc, 1, 10)
                     THEN "moderate"
                     ELSE "low"

\* journey_minutes: 0.0, or with 2 or more segments the time from the first
\* to the last divided by 60.0; a fraction of minutes.
JourneyMinutes(enr) ==
  IF Len(enr) >= 2
  THEN RatNorm(<< enr[Len(enr)].timestamp_utc - enr[1].timestamp_utc,
                  60 * TicksPerSecond >>)
  ELSE RatInt(0)

\* "No significant difference between seats; sun exposure is roughly equal."
NoDifference == [form |-> "no significant difference"]

\* f"{best} recommended. {worst} gets ~{sun_minutes} min of direct sun."
SunMinutes(best, worst, sun_minutes) ==
  [form |-> "min of direct sun", best |-> best, worst |-> worst,
   sun_minutes |-> sun_minutes]

\* f"{best} recommended as the shadiest seat."
Shadiest(best) == [form |-> "recommended as the shadiest seat", best |-> best]

\* Mutant of build_summary: the minutes are cut off, not rounded.
build_summary_Truncated(best, worst, sc, enr) ==
  IF ~SpreadReaches(sc, 5, 100)
  THEN NoDifference
  ELSE LET journey_minutes == JourneyMinutes(enr)
       IN  IF WorstScore(sc) > 0 /\ journey_minutes[1] > 0 /\ TotalScore(sc) > 0
           THEN SunMinutes(best, worst,
                           (WorstScore(sc) * journey_minutes[1])
                             \div (TotalScore(sc) * journey_minutes[2]))
           ELSE Shadiest(best)

\* _build_summary(best, worst, scores, enriched)
build_summary(best, worst, sc, enr) ==
  IF ~SpreadReaches(sc, 5, 100)
  THEN NoDifference
  ELSE LET journey_minutes == JourneyMinutes(enr)
       IN  IF WorstScore(sc) > 0 /\ journey_minutes[1] > 0 /\ TotalScore(sc) > 0
           THEN SunMinutes(best, worst,
                           RoundHalfEven(WorstScore(sc) * journey_minutes[1],
                                         TotalScore(sc) * journey_minutes[2]))
           ELSE Shadiest(best)

\* scores_dict = {k: result[k] for k in ("FL", "FR", "RL", "RR")}
ScoresDict(r) == [seat \in SeatSet |-> r[seat]]

\* RecommendResponse(best_seat, worst_seat, scores, confidence, summary)
OkResponse(r, enr) ==
  [status_code |-> 200,
   detail |-> << >>,
   body |-> [best_seat  |-> r.best_seat,
             worst_seat |-> r.worst_seat,
             scores     |-> ScoresDict(r),
             confidence |-> compute_confidence(enr, ScoresDict(r)),
             summary    |-> build_summary(r.best_seat, r.worst_seat,
                                          ScoresDict(r), enr)]]

\* The steps of the routes a request is served with: each gives one segment.
ReqSteps ==
  { [duration |-> 0, npoints |-> 0],
    [duration |-> TicksPerSecond, npoints |-> 1],
    [duration |-> 60 * TicksPerSecond, npoints |-> 2] }

\* The hours of day requests are served in: by night and in the morning.
ReqHours == {3, 7}

\* What get_sun_position answers while a request is served.
ReqEnrichAnswers == [azimuth : {90}, elevation : {18}]

ReqSolarAnswers == [azimuth : {90, 300}, elevation : {30}]

\* _bearing for the places of the model: they lie so that the steps with an
\* odd number run north and the others east.
BearingDegrees(b) == IF b[2][2] % 2 = 1 THEN 0 ELSE 90

\* An enriched segment as score_seats computes with it.
ScorerView(e) ==
  [heading_degrees |-> BearingDegrees(e.heading_degrees),
   uv_index        |-> e.uv_index,
   cloud_cover_pct |-> e.cloud_cover_pct]

\* POST /recommend received: recommend is about to call get_route_segments
\* (without maps_api_key).
RecommendInit ==
  /\ pc = "idle"
  /\ drive_side \in DriveSides
  /\ n = 0
  /\ seg = None
  /\ solar = None
  /\ scores = ZeroScores
  /\ result = None
  /\ calls = 0
  /\ hist = HistInit
  /\ first = None
  /\ scores_uv2 = ZeroScores
  /\ scores_c50 = ZeroScores
  /\ rpc = "idle"
  /\ departure_ts \in Departures
  /\ legs = 0
  /\ route = << >>
  /\ points = 0
  /\ time_per_sub = RatInt(0)
  /\ sub_i = 0
  /\ elapsed = RatInt(0)
  /\ segments = << >>
  /\ qpc = "called"
  /\ origin_hour \in ReqHours
  /\ reqs = << >>
  /\ encoded = << >>
  /\ decoded = None
  /\ env_key \in EnvKeys
  /\ fetches = 0
  /\ status = NoStatus
  /\ raised = None
  /\ enriched = << >>
  /\ looked = << >>
  /\ response = None

\* api_key = maps_api_key or os.getenv(...); if not api_key: raise ValueError
CheckKey ==
  /\ qpc = "called"
  /\ IF MissingKey(ApiKey(Unset, env_key))
     THEN raised' = KeyError /\ qpc' = "raised"
     ELSE raised' = raised /\ qpc' = "fetch"
  /\ UNCHANGED << reqs, origin_hour, encoded, decoded, env_key, fetches, status, enriched, looked,
                  response >>
  /\ UNCHANGED svars
  /\ UNCHANGED rvars

\* client.get(...) raises: no response arrives.
FetchTransportError ==
  /\ qpc = "fetch"
  /\ fetches' = fetches + 1
  /\ raised' = TransportError
  /\ qpc' = "raised"
  /\ UNCHANGED << reqs, origin_hour, encoded, decoded, env_key, status, enriched, looked, response >>
  /\ UNCHANGED svars
  /\ UNCHANGED rvars

\* Mutant of FetchHttpError: the request is sent again.
FetchHttpError_Retry(code) ==
  /\ qpc = "fetch"
  /\ fetches < 2
  /\ fetches' = fetches + 1
  /\ UNCHANGED << qpc, raised, reqs, origin_hour, encoded, decoded, env_key, status, enriched, looked,
                  response >>
  /\ UNCHANGED svars
  /\ UNCHANGED rvars

\* The response has an HTTP error status: response.raise_for_status() raises.
FetchHttpError(code) ==
  /\ qpc = "fetch"
  /\ fetches' = fetches + 1
  /\ raised' = HttpError(code)
  /\ qpc' = "raised"
  /\ UNCHANGED << reqs, origin_hour, encoded, decoded, env_key, status, enriched, looked, response >>
  /\ UNCHANGED svars
  /\ UNCHANGED rvars

\* The response's status is not "OK": raise ValueError naming it.
FetchStatusNotOk(st) ==
  /\ qpc = "fetch"
  /\ st # "OK"
  /\ fetches' = fetches + 1
  /\ status' = st
  /\ raised' = StatusError(st)
  /\ qpc' = "raised"
  /\ UNCHANGED << reqs, origin_hour, encoded, decoded, env_key, enriched, looked, response >>
  /\ UNCHANGED svars
  /\ UNCHANGED rvars

\* The response's status is "OK": segments = [], elapsed = 0.0, the loops.
FetchOk ==
  /\ qpc = "fetch"
  /\ fetches' = fetches + 1
  /\ status' = "OK"
  /\ qpc' = "segmenting"
  /\ rpc' = "steps"
  /\ segments' = << >>
  /\ elapsed' = RatInt(0)
  /\ UNCHANGED << departure_ts, legs, route, points, time_per_sub, sub_i >>
  /\ UNCHANGED << reqs, origin_hour, encoded, decoded, env_key, raised, enriched, looked, response >>
  /\ UNCHANGED svars

\* get_route_segments raised: recommend's except clauses, or none of them.
AnswerError ==
  /\ qpc = "raised"
  /\ response' = ErrorResponse(raised)
  /\ qpc' = "responded"
  /\ UNCHANGED << reqs, origin_hour, encoded, decoded, env_key, fetches, status, raised, enriched,
                  looked >>
  /\ UNCHANGED svars
  /\ UNCHANGED rvars

\* if not segments: raise HTTPException(status_code=422, ...)
RejectEmpty ==
  /\ qpc = "segmenting"
  /\ rpc = "returned"
  /\ segments = << >>
  /\ response' = EmptyRouteResponse
  /\ qpc' = "responded"
  /\ UNCHANGED << reqs, origin_hour, encoded, decoded, env_key, fetches, status, raised, enriched,
                  looked >>
  /\ UNCHANGED svars
  /\ UNCHANGED rvars

\* Mutant of BeginEnrich: the list is not looked at.
BeginEnrich_Unchecked ==
  /\ qpc = "segmenting"
  /\ rpc = "returned"
  /\ enriched' = << >>
  /\ qpc' = "enrich"
  /\ UNCHANGED << reqs, origin_hour, encoded, decoded, env_key, fetches, status, raised, looked,
                  response >>
  /\ UNCHANGED svars
  /\ UNCHANGED rvars

\* enriched = _enrich_weather(segments), for a list that is not empty.
BeginEnrich ==
  /\ qpc = "segmenting"
  /\ rpc = "returned"
  /\ segments # << >>
  /\ enriched' = << >>
  /\ qpc' = "enrich"
  /\ UNCHANGED << reqs, origin_hour, encoded, decoded, env_key, fetches, status, raised, looked,
                  response >>
  /\ UNCHANGED svars
  /\ UNCHANGED rvars

\* result = score_seats(enriched, drive_side=body.drive_side): scores are
\* zeroed and the loop starts.
CallScorer ==
  /\ qpc = "enriched"
  /\ pc = "idle"
  /\ pc' = "loop"
  /\ qpc' = "scoring"
  /\ UNCHANGED << drive_side, n, seg, solar, scores, result, calls, hist, first,
                  scores_uv2, scores_c50 >>
  /\ UNCHANGED << reqs, origin_hour, encoded, decoded, env_key, fetches, status, raised, enriched,
                  looked, response >>
  /\ UNCHANGED rvars

\* score_seats takes the next segment of enriched and the provider answers.
ReqQuerySun(a) ==
  /\ qpc = "scoring"
  /\ n < Len(enriched)
  /\ QuerySun(ScorerView(enriched[n + 1]), a)

\* score_seats takes the next segment of enriched and the provider raises.
ReqQuerySunFails ==
  /\ qpc = "scoring"
  /\ n < Len(enriched)
  /\ QuerySunFails(ScorerView(enriched[n + 1]))

\* score_seats returns once enriched is exhausted.
ReqReturnResult ==
  /\ qpc = "scoring"
  /\ n = Len(enriched)
  /\ ReturnResult

\* The response is assembled from result.
Respond ==
  /\ qpc = "scoring"
  /\ pc = "done"
  /\ response' = OkResponse(result, enriched)
  /\ qpc' = "responded"
  /\ UNCHANGED << reqs, origin_hour, encoded, decoded, env_key, fetches, status, raised, enriched,
                  looked >>
  /\ UNCHANGED svars
  /\ UNCHANGED rvars

\* Mutant of AnswerScorerError: the totals reached so far are answered.
AnswerScorerError_Partial ==
  /\ qpc = "scoring"
  /\ pc = "raised"
  /\ response' = OkResponse(ScoreResult(scores, drive_side), enriched)
  /\ qpc' = "responded"
  /\ UNCHANGED << reqs, origin_hour, encoded, decoded, env_key, fetches, status, raised, enriched,
                  looked >>
  /\ UNCHANGED svars
  /\ UNCHANGED rvars

\* score_seats raised: recommend catches nothing there, the framework
\* answers 500.
AnswerScorerError ==
  /\ qpc = "scoring"
  /\ pc = "raised"
  /\ response' = ErrorResponse([class |-> "Exception", message |-> << "solar" >>])
  /\ qpc' = "responded"
  /\ UNCHANGED << reqs, origin_hour, encoded, decoded, env_key, fetches, status, raised, enriched,
                  looked >>
  /\ UNCHANGED svars
  /\ UNCHANGED rvars

RecommendNext ==
  \/ CheckKey
  \/ FetchTransportError
  \/ \E code \in HttpErrorCodes : FetchHttpError(code)
  \/ \E st \in ErrorStatuses : FetchStatusNotOk(st)
  \/ FetchOk
  \/ AnswerError
  \/ NextLeg
  \/ \E st \in ReqSteps : DegenerateStep(st)
  \/ \E st \in ReqSteps : BeginStep(st)
  \/ EmitSub
  \/ ReturnSegments
  \/ RejectEmpty
  \/ BeginEnrich
  \/ \E a \in ReqEnrichAnswers : EnrichSegment(a)
  \/ EnrichSegmentFallback
  \/ EnrichReturn
  \/ CallScorer
  \/ \E a \in ReqSolarAnswers : ReqQuerySun(a)
  \/ ReqQuerySunFails
  \/ ScoreSegment
  \/ ReqReturnResult
  \/ Respond
  \/ AnswerScorerError

RecommendSpec == RecommendInit /\ [][RecommendNext]_vars

\* ------------------------------- api/routes: recommend, decoding a step

\* A request whose route fetch answered "OK": get_route_segments is about to
\* decode the polyline of a step, a string of up to MaxChars characters.
DecodeSpecInit ==
  /\ ScorerIdle
  /\ RouteInit
  /\ qpc = "segmenting"
  /\ origin_hour = 0
  /\ reqs = << >>
  /\ encoded \in UNION { [1..k -> Chars] : k \in 0..MaxChars }
  /\ decoded = None
  /\ env_key = "key"
  /\ fetches = 1
  /\ status = "OK"
  /\ raised = None
  /\ enriched = << >>
  /\ looked = << >>
  /\ response = None

\* IndexError("string index out of range") as recommend sees it.
DecodeError ==
  [class |-> "IndexError", message |-> << "string index out of range" >>]

\* points = _decode_polyline(step["polyline"]["points"]): it returns the
\* points, or raises IndexError, which get_route_segments does not catch.
Decode ==
  /\ qpc = "segmenting"
  /\ decoded = None
  /\ decoded' = decode_polyline(encoded)
  /\ IF decoded' = IndexError
     THEN raised' = DecodeError /\ qpc' = "raised"
     ELSE raised' = raised /\ qpc' = qpc
  /\ UNCHANGED << reqs, origin_hour, encoded, env_key, fetches, status, enriched, looked,
                  response >>
  /\ UNCHANGED svars
  /\ UNCHANGED rvars

DecodeNext ==
  \/ Decode
  \/ AnswerError

DecodeSpec == DecodeSpecInit /\ [][DecodeNext]_vars

\* --------------------------- api/routes: recommend, assembling the response

\* uv_index values of the enriched segments, in thousandths: none, below the
\* moderate tier's average, between the tiers, above the high tier's.
GivenUv == {0, 1000, 2000, 7000}

\* Time between two segments: none, or a minute.
GivenGaps == {0, 60 * TicksPerSecond}

\* Enriched lists of up to MaxEnriched segments.
GivenEnriched ==
  UNION { { [i \in 1..k |->
               WithWeather(make_segment(PointAt(i, 0), (i - 1) * gap,
                                        Bearing(PointAt(i, 0), PointAt(i, 1))),
                           uv[i])] :
              uv \in [1..k -> GivenUv], gap \in GivenGaps } :
          k \in 0..MaxEnriched }

\* Running totals score_seats ends with: the left seats' total is 0, 0.00004,
\* 0.70, 0.71, 0.90, 0.91, 0.95, 0.96 or 1.00, the right seats' 0 or 1.00.
GivenTotals ==
  { [seat \in SeatSet |-> IF seat \in {"FL", "RL"} THEN l ELSE r] :
      l \in {0, 4000} \cup {c * (ScoreScale \div 100) :
                               c \in {70, 71, 90, 91, 95, 96, 100}},
      r \in {0, ScoreScale} }

\* score_seats has returned result for the list enriched: recommend is about
\* to assemble the response.
HeuristicInit ==
  /\ enriched \in GivenEnriched
  /\ pc = "done"
  /\ drive_side = "LHD"
  /\ n = Len(enriched)
  /\ seg = None
  /\ solar = None
  /\ scores \in GivenTotals
  /\ result = ScoreResult(scores, drive_side)
  /\ calls = Len(enriched)
  /\ hist = HistInit
  /\ first = None
  /\ scores_uv2 = ZeroScores
  /\ scores_c50 = ZeroScores
  /\ RouteIdle
  /\ qpc = "scoring"
  /\ origin_hour = 0
  /\ reqs = << >>
  /\ encoded = << >>
  /\ decoded = None
  /\ env_key = "key"
  /\ fetches = 1
  /\ status = "OK"
  /\ raised = None
  /\ looked = << >>
  /\ response = None

HeuristicNext == Respond

HeuristicSpec == HeuristicInit /\ [][HeuristicNext]_vars

\* ------------------------------ api/routes: recommend, concurrent requests

\* The requests in flight.  Each runs recommend as a coroutine of one event
\* loop: the loop switches between them only where one awaits, which
\* recommend does in get_route_segments alone (entering the HTTP client and
\* client.get, then leaving the client); everything after is synchronous.
Requests == 1..MaxRequests

\* The frame of a request: the body's drive_side and departure time, the
\* provider's response once received, and the locals segments, enriched and
\* scores that get_route_segments, _enrich_weather and score_seats create.
NewRequest(side, departure) ==
  [pc           |-> "called",
   drive_side   |-> side,
   departure_ts |-> departure,
   data         |-> None,
   segments     |-> << >>,
   enriched     |-> << >>,
   scores       |-> ZeroScores,
   response     |-> None]

\* What the route provider answers a request: an HTTP error, a status that
\* is not OK, or a route of up to two steps.
ProviderAnswers ==
  { [http_status |-> 500, status |-> NoStatus, steps |-> << >>],
    [http_status |-> 200, status |-> "ZERO_RESULTS", steps |-> << >>] }
  \cup { [http_status |-> 200, status |-> "OK", steps |-> steps] :
           steps \in UNION { [1..k -> ReqSteps] : k \in 0..2 } }

\* What get_sun_position answers for the places and times of these routes.
SunSeen == [azimuth |-> 90, elevation |-> 18]

\* The inner loop of get_route_segments over the points of step s, from
\* point i on, el seconds (in ticks) after departure.
RECURSIVE SubSegments(_, _, _, _, _, _)
SubSegments(departure, s, npoints, per_sub, i, el) ==
  IF i >= npoints - 1
  THEN << >>
  ELSE << make_segment(PointAt(s, i), RatRound(RatAdd(RatInt(departure), el)),
                       Bearing(PointAt(s, i), PointAt(s, i + 1))) >>
       \o SubSegments(departure, s, npoints, per_sub, i + 1, RatAdd(el, per_sub))

\* The loops of get_route_segments over the steps from step s on, appending
\* to a list that starts empty.
RECURSIVE RouteSegments(_, _, _, _)
RouteSegments(departure, steps, s, el) ==
  IF s > Len(steps)
  THEN << >>
  ELSE LET st == steps[s]
           rest == RouteSegments(departure, steps, s + 1,
                                 RatAdd(el, RatInt(st.duration)))
       IN  IF st.npoints < 2
           THEN << make_segment(IF st.npoints = 1 THEN PointAt(s, 0) ELSE StartOf(s),
                                RatRound(RatAdd(RatInt(departure), el)),
                                Bearing(StartOf(s), EndOf(s))) >> \o rest
           ELSE SubSegments(departure, s, st.npoints,
                            TimePerSub(st.duration, st.npoints), 0, el) \o rest

\* _enrich_weather(segments), the lookups answering SunSeen.
EnrichAll(segs) ==
  [i \in 1..Len(segs) |-> WithWeather(segs[i], UvFromElevation(SunSeen.elevation))]

\* The totals of score_seats after the first k segments of enriched.
RECURSIVE ScoreAll(_, _)
ScoreAll(enr, k) ==
  IF k = 0
  THEN ZeroScores
  ELSE Accumulate(ScoreAll(enr, k - 1), ScorerView(enr[k]), SunSeen)

\* recommend from the provider's response on, for a frame q whose segment
\* list is segs: the status checks, the empty-route check, enrichment,
\* scoring and the response.
Served(q, segs) ==
  IF q.data.http_status # 200
  THEN [q EXCEPT !.pc = "responded",
                 !.response = ErrorResponse(HttpError(q.data.http_status))]
  ELSE IF q.data.status # "OK"
       THEN [q EXCEPT !.pc = "responded",
                      !.response = ErrorResponse(StatusError(q.data.status))]
       ELSE IF segs = << >>
            THEN [q EXCEPT !.pc = "responded", !.response = EmptyRouteResponse]
            ELSE LET enr == EnrichAll(segs)
                     sc == ScoreAll(enr, Len(enr))
                 IN  [q EXCEPT !.pc = "responded",
                               !.segments = segs,
                               !.enriched = enr,
                               !.scores = sc,
                               !.response =
                                 OkResponse(ScoreResult(sc, q.drive_side), enr)]

\* Requests have arrived; none has run yet.
ConcurrentInit ==
  /\ ScorerIdle
  /\ RouteIdle
  /\ qpc = "idle"
  /\ reqs \in [Requests -> {NewRequest(side, 0) : side \in DriveSides}]
  /\ origin_hour = 0
  /\ encoded = << >>
  /\ decoded = None
  /\ env_key \in EnvKeys
  /\ fetches = 0
  /\ status = NoStatus
  /\ raised = None
  /\ enriched = << >>
  /\ looked = << >>
  /\ response = None

\* Request r runs up to its first await: the key check, which answers 400 on
\* the spot, or the request to the provider.
Begin(r) ==
  /\ reqs[r].pc = "called"
  /\ reqs' = [reqs EXCEPT ![r] =
                IF MissingKey(ApiKey(Unset, env_key))
                THEN [@ EXCEPT !.pc = "responded",
                               !.response = ErrorResponse(KeyError)]
                ELSE [@ EXCEPT !.pc = "awaiting"]]
  /\ UNCHANGED << qpc, origin_hour, encoded, decoded, env_key, fetches, status,
                  raised, enriched, looked, response >>
  /\ UNCHANGED svars
  /\ UNCHANGED rvars

\* The provider's response to request r arrives; r awaits once more while
\* its HTTP client is closed.
Receive(r, answer) ==
  /\ reqs[r].pc = "awaiting"
  /\ reqs' = [reqs EXCEPT ![r].pc = "received", ![r].data = answer]
  /\ UNCHANGED << qpc, origin_hour, encoded, decoded, env_key, fetches, status,
                  raised, enriched, looked, response >>
  /\ UNCHANGED svars
  /\ UNCHANGED rvars

\* Mutant of Finish: segments is one list of the module, which the requests
\* served before have filled.
Finish_SharedList(r) ==
  /\ reqs[r].pc = "received"
  /\ LET others == {o \in Requests : o # r /\ reqs[o].segments # << >>}
         before == IF others = {} THEN << >>
                   ELSE reqs[CHOOSE o \in others : TRUE].segments
     IN  reqs' = [reqs EXCEPT ![r] =
                   Served(@, before \o RouteSegments(@.departure_ts, @.data.steps,
                                                     1, RatInt(0)))]
  /\ UNCHANGED << qpc, origin_hour, encoded, decoded, env_key, fetches, status,
                  raised, enriched, looked, response >>
  /\ UNCHANGED svars
  /\ UNCHANGED rvars

\* Request r runs from the response to its end without awaiting: its own
\* segments = [], enriched = [] and scores are created and filled.
Finish(r) ==
  /\ reqs[r].pc = "received"
  /\ reqs' = [reqs EXCEPT ![r] =
                Served(@, RouteSegments(@.departure_ts, @.data.steps, 1, RatInt(0)))]
  /\ UNCHANGED << qpc, origin_hour, encoded, decoded, env_key, fetches, status,
                  raised, enriched, looked, response >>
  /\ UNCHANGED svars
  /\ UNCHANGED rvars

ConcurrentNext ==
  \/ \E r \in Requests : Begin(r)
  \/ \E r \in Requests, answer \in ProviderAnswers : Receive(r, answer)
  \/ \E r \in Requests : Finish(r)

ConcurrentSpec == ConcurrentInit /\ [][ConcurrentNext]_vars

\* ------------------------------------------------------- claims: the scorer

\* Position of a seat in the enumeration order FL, FR, RL, RR.
SeatIndex(seat) == CHOOSE i \in 1..4 : Seats[i] = seat

\* The four returned (rounded) scores of a result.
Returned(r) == [seat \in SeatSet |-> r[seat]]

\* The list scored so far is one segment repeated, with one provider answer.
Repeated == first # None /\ first # Mixed

\* What score_seats returns for the one-segment list [first.seg].
SingleTotals == Accumulate(ZeroScores, first.seg, first.solar)

\* C1: a segment whose solar elevation is <= 0 leaves the four totals as they
\* were, whatever its azimuth, heading, uv_index and cloud_cover_pct; a route
\* made only of such segments returns 0 for FL, FR, RL and RR.
C1_HorizonCutoff ==
  [][ /\ (pc = "score" /\ solar.elevation <= 0) => scores' = scores
      /\ (pc' = "done" /\ hist'.dark) => \A seat \in SeatSet : result'[seat] = 0
    ]_vars

\* A route of two or more copies of a segment with the sun at or below the
\* horizon, abeam and with a positive weight, has been scored and returned.
C1_Witness ==
  /\ pc = "done"
  /\ n >= 2
  /\ hist.dark
  /\ Repeated
  /\ first.seg.uv_index * (100 - first.seg.cloud_cover_pct) > 0
  /\ SunOffNose(first.seg, first.solar) = 90

\* C2 as stated: best_seat (worst_seat) is the first seat whose returned,
\* rounded score is the least (greatest) of the four returned scores.
C2_Original ==
  pc = "done" =>
    /\ result.best_seat = MinSeat(Returned(result))
    /\ result.worst_seat = MaxSeat(Returned(result))

\* C2 amended: best_seat (worst_seat) is the first seat in the order FL, FR,
\* RL, RR whose accumulated, unrounded total is the least (greatest) of the
\* four totals; its returned score is the least (greatest) returned score.
C2_BestWorstOnTotals ==
  pc = "done" =>
    LET b == result.best_seat
        w == result.worst_seat
    IN  /\ b \in SeatSet /\ w \in SeatSet
        /\ \A seat \in SeatSet : scores[b] <= scores[seat]
        /\ \A j \in 1..(SeatIndex(b) - 1) : scores[Seats[j]] > scores[b]
        /\ \A seat \in SeatSet : scores[w] >= scores[seat]
        /\ \A j \in 1..(SeatIndex(w) - 1) : scores[Seats[j]] < scores[w]
        /\ \A seat \in SeatSet : result[b] <= result[seat]
        /\ \A seat \in SeatSet : result[w] >= result[seat]

\* The totals differ below the fourth decimal: FR is the shadiest seat and
\* is returned as best_seat, though FL is returned with the same score.
C2_Witness ==
  /\ pc = "done"
  /\ scores["FR"] < scores["FL"]
  /\ result["FR"] = result["FL"]
  /\ result.best_seat = "FR"
  /\ result.worst_seat = "FL"

\* C3 as stated: with the sun exactly abeam on every segment, elevation > 0
\* and positive weight, the two sun-side seats are returned equal and
\* positive, the two opposite seats exactly zero.
C3_Original ==
  (pc = "done" /\ n >= 1) =>
    /\ hist.abeamR =>
         /\ result["FR"] = result["RR"] /\ result["FR"] > 0
         /\ result["FL"] = 0 /\ result["RL"] = 0
    /\ hist.abeamL =>
         /\ result["FL"] = result["RL"] /\ result["FL"] > 0
         /\ result["FR"] = 0 /\ result["RR"] = 0

\* C3 amended: the two sun-side seats are returned equal, their accumulated
\* total is positive and their returned score is positive whenever that total
\* exceeds 0.00005 (half a unit of the fourth decimal); the two opposite
\* seats are returned exactly zero.
C3_Abeam ==
  (pc = "done" /\ n >= 1) =>
    /\ hist.abeamR =>
         /\ result["FR"] = result["RR"] /\ scores["FR"] > 0
         /\ (2 * scores["FR"] > Round4Unit => result["FR"] > 0)
         /\ result["FL"] = 0 /\ result["RL"] = 0
    /\ hist.abeamL =>
         /\ result["FL"] = result["RL"] /\ scores["FL"] > 0
         /\ (2 * scores["FL"] > Round4Unit => result["FL"] > 0)
         /\ result["FR"] = 0 /\ result["RR"] = 0

\* Two or more segments with the sun abeam on the left were scored and the
\* left seats are returned positive.
C3_Witness ==
  /\ pc = "done"
  /\ n >= 2
  /\ hist.abeamL
  /\ result["FL"] > 0

C5_Original ==
  pc = "done" =>
    \A seat \in SeatSet :
      /\ ScoreResult(scores_uv2, drive_side)[seat] = 2 * result[seat]
      /\ hist.clear => 2 * ScoreResult(scores_c50, drive_side)[seat] = result[seat]

\* C5 amended: doubling uv_index on every segment exactly doubles every
\* seat's accumulated total, and cloud_cover_pct 50 instead of 0 halves it;
\* the returned scores, rounded to 4 decimals, are within one unit of the
\* fourth decimal of twice (within half a unit of half) the original ones.
C5_Linearity ==
  pc = "done" =>
    \A seat \in SeatSet :
      /\ scores_uv2[seat] = 2 * scores[seat]
      /\ Abs(ScoreResult(scores_uv2, drive_side)[seat] - 2 * result[seat]) <= 1
      /\ hist.clear =>
           /\ 2 * scores_c50[seat] = scores[seat]
           /\ Abs(2 * ScoreResult(scores_c50, drive_side)[seat] - result[seat]) <= 1

\* A cloudless list of two or more segments that scores both sides has been
\* returned, with the doubled run returning exactly twice the scores.
C5_Witness ==
  /\ pc = "done"
  /\ n >= 2
  /\ hist.clear
  /\ result["FL"] > 0
  /\ result["FR"] > 0
  /\ \A seat \in SeatSet :
       ScoreResult(scores_uv2, drive_side)[seat] = 2 * result[seat]

\* C6 as stated: N copies of a segment return, for every seat, exactly N
\* times the score returned for the one-segment list.
C6_Original ==
  (pc = "done" /\ Repeated) =>
    \A seat \in SeatSet :
      result[seat] = n * ScoreResult(SingleTotals, drive_side)[seat]

\* C6 amended: N copies of a segment accumulate, for every seat, exactly N
\* times the one-segment total; the returned score, rounded to 4 decimals,
\* is within (N + 1) / 2 units of the fourth decimal of N times the
\* one-segment returned score.
C6_Accumulation ==
  (pc = "done" /\ Repeated) =>
    \A seat \in SeatSet :
      /\ scores[seat] = n * SingleTotals[seat]
      /\ 2 * Abs(result[seat] - n * ScoreResult(SingleTotals, drive_side)[seat])
           <= n + 1

\* MaxSegs copies of a segment that scores the right side were returned.
C6_Witness ==
  /\ pc = "done"
  /\ n = MaxSegs
  /\ Repeated
  /\ result["FR"] > 0
  /\ result["FR"] = n * ScoreResult(SingleTotals, drive_side)["FR"]

\* C7: on the empty list score_seats does not raise and does not query the
\* solar provider; it returns 0 for the four seats, and best_seat and
\* worst_seat are both FL.
C7_EmptyList ==
  n = 0 =>
    /\ pc # "raised"
    /\ calls = 0
    /\ pc = "done" =>
         /\ \A seat \in SeatSet : result[seat] = 0
         /\ result.best_seat = "FL"
         /\ result.worst_seat = "FL"

\* score_seats returned on the empty list.
C7_Witness ==
  /\ pc = "done"
  /\ n = 0
  /\ result.driver_seat \in SeatSet

\* C8: after every segment every seat's total is non-negative and not lower
\* than before it, also for a negative uv_index or a cloud_cover_pct above
\* 100.
C8_TotalsMonotone ==
  [][\A seat \in SeatSet : scores'[seat] >= scores[seat] /\ scores'[seat] >= 0]_vars

\* Two copies of a segment with a negative uv_index and cloud cover above
\* 100 percent, sun up and abeam, were scored: the right total is positive.
C8_Witness ==
  /\ pc = "loop"
  /\ n >= 2
  /\ Repeated
  /\ first.seg.uv_index < 0
  /\ first.seg.cloud_cover_pct > 100
  /\ scores["FR"] > 0

\* What recommend reads of the dict score_seats returned.
RecommendReads(r) ==
  [best_seat  |-> r.best_seat,
   worst_seat |-> r.worst_seat,
   scores     |-> [seat \in SeatSet |-> r[seat]]]

\* C9: driver_seat is FL for LHD and FR for RHD, and drive_side changes
\* nothing else: the scores, best_seat and worst_seat, and with them all
\* that recommend reads of the result, are those of the other drive side.
C9_DriveSide ==
  pc = "done" =>
    /\ drive_side = "LHD" => result.driver_seat = "FL"
    /\ drive_side = "RHD" => result.driver_seat = "FR"
    /\ \A other \in DriveSides :
         /\ [ScoreResult(scores, other) EXCEPT !.driver_seat = result.driver_seat]
              = result
         /\ RecommendReads(ScoreResult(scores, other)) = RecommendReads(result)

\* A right-hand-drive run returned with the front-right seat the sunniest.
C9_Witness ==
  /\ pc = "done"
  /\ drive_side = "RHD"
  /\ n >= 1
  /\ result.worst_seat = "FR"
  /\ result.driver_seat = "FR"

\* C27: after any sequence of segments the running totals and the returned
\* scores have FL = RL and FR = RR, so best_seat and worst_seat are FL or FR,
\* never a rear seat, and best_seat = worst_seat exactly when all four
\* running totals are equal.
C27_RearMirrors ==
  /\ scores["FL"] = scores["RL"]
  /\ scores["FR"] = scores["RR"]
  /\ result # None =>
       /\ result.FL = result.RL
       /\ result.FR = result.RR
       /\ result.best_seat \in {"FL", "FR"}
       /\ result.worst_seat \in {"FL", "FR"}
       /\ result.best_seat = result.worst_seat <=>
            \A a \in SeatSet, b \in SeatSet : scores[a] = scores[b]

\* Two segments were scored, the totals differ, and the result is returned:
\* the right side is the best, the left side the worst.
C27_Witness ==
  /\ result # None
  /\ n >= 2
  /\ scores["FL"] > scores["FR"]
  /\ scores["FR"] > 0
  /\ result.best_seat = "FR"
  /\ result.worst_seat = "FL"

StepOf(segment) == segment.at[2]

RECURSIVE SumDurations(_)
SumDurations(r) ==
  IF r = << >> THEN 0 ELSE r[1].duration + SumDurations(Tail(r))

RECURSIVE ExpectedRuns(_, _)
ExpectedRuns(r, s) ==
  IF s > Len(r)
  THEN << >>
  ELSE [k \in 1..Max(1, r[s].npoints - 1) |-> << s, k - 1 >>]
         \o ExpectedRuns(r, s + 1)

\* C12: the returned list is, step after step in route order, N - 1 segments
\* at the decoded points 0..N-2 for a step of N >= 2 points and one segment
\* for any other step, with nothing reordered, left out or repeated.
C12_Concatenation ==
  rpc = "returned" =>
    LET exp == ExpectedRuns(route, 1)
    IN  /\ Len(segments) = Len(exp)
        /\ \A k \in 1..Len(exp) :
             /\ StepOf(segments[k]) = exp[k][1]
             /\ route[exp[k][1]].npoints >= 2 =>
                  segments[k].at = PointAt(exp[k][1], exp[k][2])

\* A route was returned with a step of 4 points, a step of one point and a
\* step of no points, in that order: 3 + 1 + 1 segments.
C12_Witness ==
  /\ rpc = "returned"
  /\ Len(route) = 3
  /\ route[1].npoints = 4
  /\ route[2].npoints = 1
  /\ route[3].npoints = 0
  /\ Len(segments) = 5
  /\ segments[3].at = PointAt(1, 2)

\* A step of fewer than 2 points is entered in this transition.
DegenerateEntered ==
  /\ Len(route') = Len(route) + 1
  /\ route'[Len(route')].npoints < 2

\* C13 as stated: a step of fewer than 2 points emits exactly one segment, at
\* the step's explicit start coordinates, headed from the explicit start to
\* the explicit end, and elapsed advances by the step's whole duration.
C13_Original ==
  [][DegenerateEntered =>
       LET s == Len(route')
       IN  /\ Len(segments') = Len(segments) + 1
           /\ SubSeq(segments', 1, Len(segments)) = segments
           /\ segments'[Len(segments')].at = StartOf(s)
           /\ segments'[Len(segments')].heading_degrees
                = Bearing(StartOf(s), EndOf(s))
           /\ elapsed' = RatAdd(elapsed, RatInt(route'[s].duration))]_vars

\* C13: a step of fewer than 2 points emits exactly one segment, at its one
\* decoded point if it has one and at the step's explicit start coordinates
\* if it has none, headed from the explicit start to the explicit end, and
\* elapsed advances by the step's whole duration.
C13_Degenerate ==
  [][DegenerateEntered =>
       LET s == Len(route')
       IN  /\ Len(segments') = Len(segments) + 1
           /\ SubSeq(segments', 1, Len(segments)) = segments
           /\ segments'[Len(segments')].at
                = (IF route'[s].npoints = 1 THEN PointAt(s, 0) ELSE StartOf(s))
           /\ segments'[Len(segments')].heading_degrees
                = Bearing(StartOf(s), EndOf(s))
           /\ elapsed' = RatAdd(elapsed, RatInt(route'[s].duration))]_vars

\* A step of one point that lasts a second was followed by a step of no
\* points: the first's segment is at its decoded point, the second's at its
\* start_location, a second later.
C13_Witness ==
  /\ Len(route) = 2
  /\ route[1] = [duration |-> TicksPerSecond, npoints |-> 1]
  /\ route[2].npoints = 0
  /\ Len(segments) = 2
  /\ segments[1].at = PointAt(1, 0)
  /\ segments[2].at = StartOf(2)
  /\ segments[2].timestamp_utc = departure_ts + TicksPerSecond
  /\ elapsed = RatInt(TicksPerSecond + route[2].duration)

\* ---------------------------------------------------- claims: the enricher

\* The time-of-day estimate by UTC hour (position hour + 1), in thousandths:
\* 6 * sin(pi * (hour - 6) / 12) to 2 decimals from 6 to 18 o'clock, else 0.
FallbackByHour ==
  << 0, 0, 0, 0, 0, 0, 0, 1550, 3000, 4240, 5200, 5800, 6000,
     5800, 5200, 4240, 3000, 1550, 0, 0, 0, 0, 0, 0 >>

\* uv is max(0, round(elevation / 9, 2)): 0 for an elevation of 0 or less,
\* else the whole number of hundredths nearest to elevation / 9.
IsUvOfElevation(uv, elevation) ==
  IF elevation <= 0
  THEN uv = 0
  ELSE /\ uv % (UvScale \div 100) = 0
       /\ 2 * Abs(9 * (uv \div (UvScale \div 100)) - 100 * elevation) <= 9

C19_State ==
  /\ raised = None
  /\ Len(enriched) = Len(looked)
  /\ Len(enriched) <= Len(segments)
  /\ qpc = "enriched" => Len(enriched) = Len(segments)
  /\ \A k \in 1..Len(enriched) :
       /\ enriched[k].at = segments[k].at
       /\ enriched[k].timestamp_utc = segments[k].timestamp_utc
       /\ enriched[k].heading_degrees = segments[k].heading_degrees
       /\ enriched[k].cloud_cover_pct = 0
       /\ enriched[k].uv_index >= 0
       /\ IF looked[k] = Failed
          THEN enriched[k].uv_index = FallbackByHour[origin_hour + 1]
          ELSE IsUvOfElevation(enriched[k].uv_index, looked[k].elevation)

C20_TimeOfDay ==
  /\ \A h \in 0..23 :
       /\ (h < 6 \/ h > 18) => UvAtHour(h) = 0
       /\ UvAtHour(h) >= 0
       /\ UvAtHour(h) <= UvAtHour(12)
       /\ h >= 1 => UvAtHour(h) = UvAtHour(24 - h)
  /\ UvAtHour(12) = 6 * UvScale
  /\ \A k \in 1..Len(enriched) :
       looked[k] = Failed => enriched[k].uv_index = UvAtHour(origin_hour)

\* A lookup failed at 12 o'clock and the segment was given uv_index 6.0.
C20_Witness ==
  /\ origin_hour = 12
  /\ reqs = << >>
  /\ Len(enriched) >= 2
  /\ looked[2] = Failed
  /\ enriched[2].uv_index = 6 * UvScale
  /\ UtcHour(enriched[2].timestamp_utc) = 12

\* ----------------------------------------------------- claims: the request

\* A message or detail names a status.
Names(message, st) == \E i \in 1..Len(message) : message[i] = st

\* C14: when the route provider's response has a status other than OK,
\* get_route_segments raises an error whose message names that status and
\* returns no segments, and POST /recommend answers 400 with that status in
\* the detail.
C14_StatusError ==
  status \notin {NoStatus, "OK"} =>
    /\ qpc \in {"raised", "responded"}
    /\ raised # None
    /\ raised.class = "ValueError"
    /\ Names(raised.message, status)
    /\ rpc = "idle"
    /\ segments = << >>
    /\ qpc = "responded" =>
         /\ response.status_code = 400
         /\ Names(response.detail, status)

\* The provider answered REQUEST_DENIED and the request was answered 400.
C14_Witness ==
  /\ qpc = "responded"
  /\ fetches = 1
  /\ status = "REQUEST_DENIED"
  /\ response.status_code = 400
  /\ response.detail = << "Directions API error", "REQUEST_DENIED" >>

\* C15: REQUEST_DENIED is classified apart from ZERO_RESULTS and NOT_FOUND:
\* the error class get_route_segments raises for it and the HTTP status
\* POST /recommend answers differ from those of a not-found status.
C15_Classified ==
  (qpc = "responded" /\ status = "REQUEST_DENIED") =>
    \A nf \in {"ZERO_RESULTS", "NOT_FOUND"} :
      /\ raised.class # StatusError(nf).class
      /\ response.status_code # ErrorResponse(StatusError(nf)).status_code

\* C16: with no API key (GOOGLE_MAPS_API_KEY unset or empty, maps_api_key not
\* given or empty) get_route_segments raises the configuration error before
\* anything is sent: no fetch, no segmenting, no enrichment, no scoring.
C16_NoKey ==
  env_key \in {Unset, ""} =>
    /\ \A m \in {Unset, ""} : MissingKey(ApiKey(m, env_key))
    /\ fetches = 0
    /\ status = NoStatus
    /\ rpc = "idle"
    /\ segments = << >>
    /\ enriched = << >>
    /\ looked = << >>
    /\ pc = "idle"
    /\ calls = 0
    /\ qpc \in {"called", "raised", "responded"}
    /\ qpc # "called" => raised = KeyError
    /\ qpc = "responded" => response.body = None

\* GOOGLE_MAPS_API_KEY was empty and the request was answered with the error.
C16_Witness ==
  /\ env_key = ""
  /\ qpc = "responded"
  /\ raised = KeyError
  /\ fetches = 0
  /\ response.status_code = 400

\* C17: the route provider is called at most once per request, and when
\* get_route_segments fails (missing key, HTTP error answered 502, status
\* other than OK answered 400, or any other failure) the request ends in an
\* error response: no solar-position query, no scores, best_seat or summary.
C17_SingleFetch ==
  /\ fetches <= 1
  /\ raised # None =>
       /\ looked = << >>
       /\ calls = 0
       /\ pc = "idle"
       /\ enriched = << >>
       /\ result = None
       /\ qpc \in {"raised", "responded"}
       /\ qpc = "responded" =>
            /\ response.status_code >= 400
            /\ response.body = None
            /\ raised.class = "HTTPStatusError" => response.status_code = 502
            /\ raised.class = "ValueError" => response.status_code = 400

\* The provider answered with an HTTP error, once, and the request was
\* answered 502.
C17_Witness ==
  /\ qpc = "responded"
  /\ fetches = 1
  /\ raised # None
  /\ raised.class = "HTTPStatusError"
  /\ response.status_code = 502
  /\ calls = 0

\* C18: when every leg has a step, get_route_segments returns an empty list
\* only for a route without legs; POST /recommend never hands an empty list
\* to _enrich_weather or score_seats and answers an empty list with 422.
C18_EmptyRoute ==
  /\ (rpc = "returned" /\ Len(route) >= legs /\ segments = << >>) => legs = 0
  /\ qpc \in {"enrich", "enriched", "scoring"} => segments # << >>
  /\ pc # "idle" => enriched # << >>
  /\ (qpc = "responded" /\ rpc = "returned" /\ segments = << >>) =>
       /\ response.status_code = 422
       /\ looked = << >>
       /\ calls = 0

\* The provider answered OK with a route without legs and the request was
\* answered 422.
C18_Witness ==
  /\ qpc = "responded"
  /\ status = "OK"
  /\ rpc = "returned"
  /\ legs = 0
  /\ segments = << >>
  /\ response.status_code = 422

\* C25: a failure of the solar lookup inside score_seats is not guarded: it
\* leaves score_seats without a result and POST /recommend answers without a
\* recommendation (no fallback, no partial scores), although every segment
\* was enriched, by a lookup or by the fallback.
C25_ScoringUnguarded ==
  (qpc \in {"scoring", "responded"} /\ pc = "raised") =>
    /\ result = None
    /\ Len(enriched) = Len(segments)
    /\ n <= Len(enriched)
    /\ qpc = "responded" =>
         /\ response.status_code = 500
         /\ response.body = None

\* The lookup failed on the second segment, after the first one had added to
\* the totals, and the request was answered 500.
C25_Witness ==
  /\ qpc = "responded"
  /\ pc = "raised"
  /\ n = 2
  /\ scores # ZeroScores
  /\ response.status_code = 500

\* ----------------------------------------------------- claims: the decoder

\* The positions of the characters that end a coordinate, and the j-th of
\* them in string order.
Ends(enc) == {i \in 1..Len(enc) : enc[i] < 32}

EndAt(enc, j) ==
  IF j = 0 THEN 0
  ELSE CHOOSE i \in Ends(enc) : Cardinality({e \in Ends(enc) : e <= i}) = j

\* The number the 5-bit groups at positions from..to spell, lowest group
\* first.
RECURSIVE GroupValue(_, _, _)
GroupValue(enc, from, to) ==
  IF from > to THEN 0
  ELSE (enc[from] % 32) + 32 * GroupValue(enc, from + 1, to)

\* The zigzag decoding of a number: an odd v is ~(v >> 1), an even v is
\* v >> 1.
ZigZag(v) == IF v % 2 = 1 THEN -((v - 1) \div 2) - 1 ELSE v \div 2

\* The j-th coordinate delta of the string.
DeltaAt(enc, j) ==
  ZigZag(GroupValue(enc, EndAt(enc, j - 1) + 1, EndAt(enc, j)))

\* The sum of the deltas numbered j, j - 2, j - 4, ...
RECURSIVE DeltaSum(_, _)
DeltaSum(enc, j) == IF j <= 0 THEN 0 ELSE DeltaAt(enc, j) + DeltaSum(enc, j - 2)

\* The string holds complete (lat, lng) pairs only.
WellFormed(enc) ==
  /\ Len(enc) > 0 => enc[Len(enc)] < 32
  /\ Cardinality(Ends(enc)) % 2 = 0

\* C21: a well-formed string of k complete pairs decodes to exactly k points
\* in input order, point i being (sum of the first i latitude deltas, sum of
\* the first i longitude deltas) / 1e5, each delta the zigzag decoding of its
\* 5-bit groups; the empty string decodes to the empty list.
C21_Decode ==
  (decoded # None /\ WellFormed(encoded)) =>
    /\ decoded # IndexError
    /\ Len(decoded.points) * 2 = Cardinality(Ends(encoded))
    /\ \A i \in 1..Len(decoded.points) :
         decoded.points[i] =
           << DeltaSum(encoded, 2 * i - 1), DeltaSum(encoded, 2 * i) >>
    /\ encoded = << >> => decoded.points = << >>

\* "`@A?@" was decoded: two points, (-17, 1) and (-17, 0) hundred-thousandths.
C21_Witness ==
  /\ encoded = << 33, 1, 2, 0, 1 >>
  /\ decoded # None
  /\ decoded # IndexError
  /\ decoded.points = << << -17, 1 >>, << -17, 0 >> >>

\* C22: a string that ends in the middle of a coordinate, or after a
\* latitude without a complete longitude, makes _decode_polyline raise a
\* decoding error and return no point list, and the request whose route
\* holds it is answered with an error and no recommendation.
C22_Truncated ==
  (decoded # None /\ ~WellFormed(encoded)) =>
    /\ decoded = IndexError
    /\ raised = DecodeError
    /\ qpc \in {"raised", "responded"}
    /\ segments = << >>
    /\ qpc = "responded" =>
         /\ response.status_code >= 400
         /\ response.body = None

\* "@A@" was given, a pair and a latitude without longitude: IndexError, and
\* the request was answered 500.
C22_Witness ==
  /\ encoded = << 1, 2, 1 >>
  /\ decoded = IndexError
  /\ qpc = "responded"
  /\ response.status_code = 500

\* ------------------------------------------- claims: the response heuristics

\* The request was answered 200.
Answered == response # None /\ response.status_code = 200

\* The number of segments with uv_index > 0 and the sum of their uv_index.
SunnyCount(enr) == Cardinality({i \in 1..Len(enr) : enr[i].uv_index > 0})

RECURSIVE SunnyUv(_, _)
SunnyUv(enr, k) ==
  IF k = 0 THEN 0
  ELSE SunnyUv(enr, k - 1) + (IF enr[k].uv_index > 0 THEN enr[k].uv_index ELSE 0)

\* relative_spread >= num / den: the greatest score is positive and exceeds
\* the least by that share of itself (in the program's floats).
SpreadAtLeast(sc, num, den) ==
  \E hi \in SeatSet, lo \in SeatSet :
    /\ \A seat \in SeatSet : sc[lo] <= sc[seat] /\ sc[seat] <= sc[hi]
    /\ sc[hi] > 0
    /\ den * (sc[hi] - sc[lo]) >= num * sc[hi]
    /\ << sc[hi], sc[lo], num, den >> \notin FloatShortfalls

HighCase(enr, sc) ==
  /\ SunnyCount(enr) >= 1
  /\ 10 * SunnyCount(enr) >= 7 * Len(enr)
  /\ SunnyUv(enr, Len(enr)) >= 4 * UvScale * SunnyCount(enr)
  /\ SpreadAtLeast(sc, 3, 10)

ModerateCase(enr, sc) ==
  /\ ~HighCase(enr, sc)
  /\ SunnyCount(enr) >= 1
  /\ 10 * SunnyCount(enr) >= 3 * Len(enr)
  /\ 2 * SunnyUv(enr, Len(enr)) >= 3 * UvScale * SunnyCount(enr)
  /\ SpreadAtLeast(sc, 1, 10)

\* C23: _compute_confidence returns high exactly when there is a sunny
\* segment and sun_fraction >= 0.7, avg_uv >= 4.0 and relative_spread >= 0.3;
\* moderate exactly when it is not high, there is a sunny segment and
\* sun_fraction >= 0.3, avg_uv >= 1.5 and relative_spread >= 0.1; low in
\* every other case, among them an empty list, no sunny segment and a worst
\* score of 0.
C23_Confidence ==
  Answered =>
    LET sc == response.body.scores
        confidence == response.body.confidence
    IN  /\ confidence \in {"high", "moderate", "low"}
        /\ confidence = "high" <=> HighCase(enriched, sc)
        /\ confidence = "moderate" <=> ModerateCase(enriched, sc)
        /\ enriched = << >> => confidence = "low"
        /\ SunnyCount(enriched) = 0 => confidence = "low"
        /\ (\A seat \in SeatSet : sc[seat] <= 0) => confidence = "low"

\* Three of four segments are sunny, with uv 1, 7 and 7, and the scores are
\* 0.7 and 1.0, a relative spread of exactly 0.3: high.
C23_Witness ==
  /\ Answered
  /\ Len(enriched) = 4
  /\ SunnyCount(enriched) = 3
  /\ SunnyUv(enriched, 4) = 15 * UvScale
  /\ response.body.scores["FL"] = 7000
  /\ response.body.scores["FR"] = 10000
  /\ response.body.confidence = "high"

\* n is num / den rounded to the nearest whole number, a tie to the even one.
IsRounded(m, num, den) ==
  \/ 2 * Abs(m * den - num) < den
  \/ 2 * Abs(m * den - num) = den /\ m % 2 = 0

\* The ticks from the first segment's timestamp to the last one's.
JourneyTicks(enr) ==
  IF Len(enr) >= 2
  THEN enr[Len(enr)].timestamp_utc - enr[1].timestamp_utc
  ELSE 0

\* C24: _build_summary returns the 'no significant difference' message
\* exactly when relative_spread < 0.05 (a worst score of 0 included);
\* otherwise the '~<n> min of direct sun' form, n being worst_score /
\* total_score * journey_minutes rounded, exactly when worst_score > 0,
\* journey_minutes > 0 and total_score > 0, journey_minutes being the time
\* from the first to the last segment in minutes (0 with fewer than 2
\* segments); and the 'recommended as the shadiest seat' form otherwise.
C24_Summary ==
  Answered =>
    LET sc == response.body.scores
        summary == response.body.summary
        best == response.body.best_seat
        worst == response.body.worst_seat
        hi == CHOOSE x \in SeatSet : \A seat \in SeatSet : sc[seat] <= sc[x]
        total == sc["FL"] + sc["FR"] + sc["RL"] + sc["RR"]
        minutes == RatNorm(<< JourneyTicks(enriched), 60 * TicksPerSecond >>)
        timed == sc[hi] > 0 /\ JourneyTicks(enriched) > 0 /\ total > 0
    IN  /\ summary = NoDifference <=> ~SpreadAtLeast(sc, 5, 100)
        /\ sc[hi] = 0 => summary = NoDifference
        /\ (SpreadAtLeast(sc, 5, 100) /\ timed) =>
             /\ summary.form = "min of direct sun"
             /\ summary.best = best
             /\ summary.worst = worst
             /\ IsRounded(summary.sun_minutes, sc[hi] * minutes[1],
                          total * minutes[2])
        /\ (SpreadAtLeast(sc, 5, 100) /\ ~timed) => summary = Shadiest(best)

\* Three minutes of journey and half of the total on the worst seat: 1.5 is
\* rounded to 2.
C24_Witness ==
  /\ Answered
  /\ JourneyTicks(enriched) = 3 * 60 * TicksPerSecond
  /\ response.body.scores["FL"] = 0
  /\ response.body.scores["FR"] = 10000
  /\ response.body.summary = SunMinutes("FL", "FR", 2)

\* C28: whenever POST /recommend returns the '~<n> min of direct sun' form,
\* the share worst_score / total_score lies between 1/4 and 1/2, so n is at
\* least round(journey_minutes / 4) and at most round(journey_minutes / 2).
C28_ShareOfJourney ==
  (Answered /\ response.body.summary.form = "min of direct sun") =>
    LET sc == response.body.scores
        hi == CHOOSE x \in SeatSet : \A seat \in SeatSet : sc[seat] <= sc[x]
        total == sc["FL"] + sc["FR"] + sc["RL"] + sc["RR"]
        minutes == RatNorm(<< JourneyTicks(enriched), 60 * TicksPerSecond >>)
        sun_minutes == response.body.summary.sun_minutes
    IN  /\ 4 * sc[hi] >= total
        /\ 2 * sc[hi] <= total
        /\ sun_minutes >= RoundHalfEven(minutes[1], 4 * minutes[2])
        /\ sun_minutes <= RoundHalfEven(minutes[1], 2 * minutes[2])

\* A journey of two minutes or more whose worst seat holds more than a
\* quarter and less than half of the total, reported with a minute or more.
C28_Witness ==
  /\ Answered
  /\ response.body.summary.form = "min of direct sun"
  /\ JourneyTicks(enriched) >= 2 * 60 * TicksPerSecond
  /\ 4 * response.body.scores[response.body.worst_seat] >
       TotalScore(response.body.scores)
  /\ 2 * response.body.scores[response.body.worst_seat] <
       TotalScore(response.body.scores)
  /\ response.body.summary.sun_minutes >= 1

\* C29: in every successful response of POST /recommend, confidence high or
\* moderate implies that the summary is not the 'no significant difference'
\* message and that best_seat differs from worst_seat; so with that message
\* the confidence is low.
C29_ConfidentMeansDifferent ==
  Answered =>
    /\ response.body.confidence \in {"high", "moderate"} =>
         /\ response.body.summary # NoDifference
         /\ response.body.best_seat # response.body.worst_seat
    /\ response.body.summary = NoDifference =>
         response.body.confidence = "low"

\* A response with confidence moderate whose relative spread, 0.29, lies
\* between the two tiers' thresholds: the summary names two different seats.
C29_Witness ==
  /\ Answered
  /\ response.body.confidence = "moderate"
  /\ response.body.scores["FL"] = 7100
  /\ response.body.scores["FR"] = 10000
  /\ response.body.summary.form = "min of direct sun"
  /\ response.body.best_seat = "FL"
  /\ response.body.worst_seat = "FR"

\* ---------------------------------------------- claims: concurrent requests

\* What a request is given: its body and the provider's response.
Given(q) == << q.drive_side, q.departure_ts, q.data >>

\* The number of segments a route of these steps gives.
RECURSIVE SegmentCount(_)
SegmentCount(steps) ==
  IF steps = << >> THEN 0
  ELSE (IF Head(steps).npoints < 2 THEN 1 ELSE Head(steps).npoints - 1)
       + SegmentCount(Tail(steps))

\* C26: however the steps of concurrent requests interleave, a request's
\* response is the one its own body and provider answers give, the same as
\* for any other request given the same, one served alone among them; and
\* no request's segment list, enriched list or score map is touched by
\* another request: they stay empty until the request itself fills them,
\* and then hold what its own route gives and nothing else.
C26_Independent ==
  /\ \A r \in Requests :
       (reqs[r].pc = "responded" /\ reqs[r].response.status_code = 200) =>
         /\ Len(reqs[r].segments) = SegmentCount(reqs[r].data.steps)
         /\ Len(reqs[r].enriched) = Len(reqs[r].segments)
         /\ \A i \in 1..Len(reqs[r].segments) :
              /\ StepOf(reqs[r].segments[i]) \in 1..Len(reqs[r].data.steps)
              /\ reqs[r].enriched[i].at = reqs[r].segments[i].at
         /\ \A seat \in SeatSet :
              reqs[r].response.body.scores[seat] = Round4(reqs[r].scores[seat])
  /\ \A a \in Requests, b \in Requests :
       (/\ reqs[a].pc = "responded"
        /\ reqs[b].pc = "responded"
        /\ Given(reqs[a]) = Given(reqs[b])) =>
         /\ reqs[a].response = reqs[b].response
         /\ reqs[a].segments = reqs[b].segments
         /\ reqs[a].enriched = reqs[b].enriched
         /\ reqs[a].scores = reqs[b].scores
  /\ \A r \in Requests :
       reqs[r].pc # "responded" =>
         /\ reqs[r].segments = << >>
         /\ reqs[r].enriched = << >>
         /\ reqs[r].scores = ZeroScores
         /\ reqs[r].response = None

\* Two requests were given the same two-step route and both were answered
\* 200 with the right seats in the sun.
C26_Witness ==
  /\ reqs[1].pc = "responded"
  /\ reqs[2].pc = "responded"
  /\ Given(reqs[1]) = Given(reqs[2])
  /\ Len(reqs[1].segments) = 2
  /\ reqs[1].response.status_code = 200
  /\ reqs[2].response.status_code = 200
  /\ reqs[2].scores["FR"] > 0

====
